---- MODULE Spec2Model ----
(***************************************************************************)
(* A model of the gui_verification package: the bitmap comparison of       *)
(* ScreenshotComparator, the CSS colour parser, the alignment checker, the *)
(* analyzers' configuration and the BaseVerifier / VerificationSuite       *)
(* result bookkeeping.  Each part has its own specification over the       *)
(* module's variables; the variables of the other parts stay idle.         *)
(*                                                                         *)
(* Floats are modelled as exact rationals [num, den] with den > 0.         *)
(***************************************************************************)
EXTENDS Integers, Sequences, FiniteSets, TLC

VARIABLES
    cmp_in,      \* ScreenshotComparator: the arguments of verify and self.threshold / self.tolerance
    cmp_out,     \* ScreenshotComparator: the VerificationResult verify returned
    cmp_ghost,   \* ScreenshotComparator: sizes of the arrays _compare_images compared
    color_str,   \* colour parser: the input string, a sequence of characters
    parse_out,   \* colour parser: what _parse_color / parse_css_color returned
    align_in,    \* AlignmentChecker: the check, the element bounds and self.tolerance
    align_out,   \* AlignmentChecker: the result dict of _check_alignment
    cfg_in,      \* analyzers' constructors: the config argument
    cfg_out,     \* analyzers' constructors: the thresholds each analyzer holds
    heap,        \* core: the VerificationResult objects created so far
    results,     \* core: verifier -> its self.results list (of heap references)
    suite,       \* core: the VerificationSuite (verifiers, results)
    frames,      \* core: thread -> the activation of run_verification / run_all it is in
    observed,    \* core: the last summary / report a caller computed
    con_in,      \* contrast: the arguments of the call (colours or elements, thresholds)
    con_out,     \* contrast: what the call returned
    rep_self,    \* repeated calls: the analyzer instance (class, thresholds, self.results)
    rep_log,     \* repeated calls: the arguments and the verdict of each call so far
    ovl_in,      \* responsive: the boxes given to the overlap check
    ovl_out,     \* responsive: what the overlap check returned
    bm_driver,   \* BrowserManager: self.driver (None, or the driver held)
    bm_created,  \* BrowserManager: the drivers created so far, each "open" or "quit"
    bm_depth,    \* BrowserManager: how many with-blocks of the manager are entered
    bm_out,      \* BrowserManager: what the last call returned or raised
    comp_in,     \* composite verifiers: the verifier, the checks asked, what each sub-check does
    comp_out     \* composite verifiers: what verify returned or raised

vars == <<cmp_in, cmp_out, cmp_ghost, color_str, parse_out, align_in, align_out,
          cfg_in, cfg_out, heap, results, suite, frames, observed,
          con_in, con_out, rep_self, rep_log, ovl_in, ovl_out,
          bm_driver, bm_created, bm_depth, bm_out, comp_in, comp_out>>

bitmapVars == <<cmp_in, cmp_out, cmp_ghost>>
colorVars  == <<color_str, parse_out>>
alignVars  == <<align_in, align_out>>
configVars == <<cfg_in, cfg_out>>
coreVars   == <<heap, results, suite, frames, observed>>
contrastVars == <<con_in, con_out>>
repeatVars   == <<rep_self, rep_log>>
responsiveVars == <<ovl_in, ovl_out>>
\* the variables of the parts modelled after the analyzers' repeated calls
browserVars == <<bm_driver, bm_created, bm_depth, bm_out>>
compositeVars == <<comp_in, comp_out>>
extraVars == <<responsiveVars, browserVars, compositeVars>>

----------------------------------------------------------------------------
(* Generic helpers.                                                         *)

RECURSIVE SumTo(_, _)
\* f[1] + ... + f[n]
SumTo(f, n) == IF n = 0 THEN 0 ELSE f[n] + SumTo(f, n - 1)

RECURSIVE CountTrue(_, _)
\* the number of i in 1..n with f[i] = TRUE
CountTrue(f, n) == IF n = 0 THEN 0 ELSE (IF f[n] THEN 1 ELSE 0) + CountTrue(f, n - 1)

Abs(x) == IF x < 0 THEN -x ELSE x

RECURSIVE SetMax(_)
SetMax(S) == LET x == CHOOSE y \in S : TRUE
             IN  IF S = {x} THEN x
                 ELSE LET m == SetMax(S \ {x}) IN IF x > m THEN x ELSE m

RECURSIVE SetMin(_)
SetMin(S) == LET x == CHOOSE y \in S : TRUE
             IN  IF S = {x} THEN x
                 ELSE LET m == SetMin(S \ {x}) IN IF x < m THEN x ELSE m

Range(s) == {s[i] : i \in DOMAIN s}

\* Exact rationals standing for Python floats.
Rat(n, d) == [num |-> n, den |-> d]
RatEq(a, b)  == IF a.den = b.den THEN a.num = b.num ELSE a.num * b.den = b.num * a.den
RatGeq(a, b) == IF a.den = b.den THEN a.num >= b.num ELSE a.num * b.den >= b.num * a.den
RatLeq(a, b) == RatGeq(b, a)

None == [kind |-> "None"]

----------------------------------------------------------------------------
(* Idle values of each part's variables.                                    *)

IdleBitmap == cmp_in = None /\ cmp_out = None /\ cmp_ghost = None
IdleColor  == color_str = <<>> /\ parse_out = [kind |-> "idle"]
IdleAlign  == align_in = None /\ align_out = None
IdleConfig == cfg_in = None /\ cfg_out = None
IdleCore   == /\ heap = <<>> /\ results = <<>> /\ suite = None
              /\ frames = <<>> /\ observed = None
IdleContrast == con_in = None /\ con_out = None
IdleRepeat   == rep_self = None /\ rep_log = <<>>
IdleResponsive == ovl_in = None /\ ovl_out = None
IdleBrowser == bm_driver = None /\ bm_created = <<>> /\ bm_depth = 0 /\ bm_out = None
IdleComposite == comp_in = None /\ comp_out = None
IdleExtra == IdleResponsive /\ IdleBrowser /\ IdleComposite


----------------------------------------------------------------------------
(* ScreenshotComparator (visual.py).                                        *)
(* A bitmap is [kind, mode, size, px]: size = <<width, height>>, px the     *)
(* pixels in row-major order; an "RGB" pixel is a triple of bytes, an "L"   *)
(* (greyscale) pixel is one byte.                                           *)

NumChannels     == 3
max_pixel_value == 255
Uint8Mod        == 256
DefaultTolerance == 5
DefaultThreshold == Rat(95, 100)

MaxPixels == 2

Palette  == {<<0, 0, 0>>, <<255, 255, 255>>, <<16, 0, 0>>}
GrayVals == {0, 255}

Sizes == {s \in (1..MaxPixels) \X (1..MaxPixels) : s[1] * s[2] <= MaxPixels}

NPixels(size) == size[1] * size[2]

Image(mode, size, px) == [kind |-> "image", mode |-> mode, size |-> size, px |-> px]

PixelValues(mode) == IF mode = "RGB" THEN Palette ELSE GrayVals

ImagesOf(mode, size) == {Image(mode, size, p) : p \in [1..NPixels(size) -> PixelValues(mode)]}

Images == UNION {ImagesOf(m, s) : m \in {"RGB", "L"}, s \in Sizes}

\* a bitmap file whose header gives a zero width and height: no pixels
EmptySizes  == {<<0, 0>>}
EmptyImages == UNION {ImagesOf("RGB", s) : s \in EmptySizes}

IsEmpty(img) == NPixels(img.size) = 0

IsSolid(img) == \A i \in DOMAIN img.px : img.px[i] = img.px[1]

\* img.resize(size, LANCZOS): the result has the requested size and the mode of
\* img.  The filter's weights are normalised, so a solid bitmap stays solid;
\* of any other bitmap the resampled pixel values are left open.
Resize(img, size) ==
    IF IsSolid(img)
    THEN {Image(img.mode, size, [i \in 1..NPixels(size) |-> img.px[1]])}
    ELSE ImagesOf(img.mode, size)

\* img.convert('RGB') when img.mode != 'RGB'
ConvertRGB(img) ==
    IF img.mode # "RGB"
    THEN Image("RGB", img.size, [i \in DOMAIN img.px |-> <<img.px[i], img.px[i], img.px[i]>>])
    ELSE img

\* np.array(img): the (height, width, 3) uint8 array, flattened
ToArray(img) ==
    [k \in 1..(NPixels(img.size) * NumChannels) |->
        img.px[((k - 1) \div NumChannels) + 1][((k - 1) % NumChannels) + 1]]

\* (a - b) ** 2 on uint8 operands: both the subtraction and the power wrap
Uint8SquaredDiff(a, b) == ((((a - b) % Uint8Mod) * ((a - b) % Uint8Mod)) % Uint8Mod)

\* ImageChops.difference: |a - b| per channel sample
ChopsDifference(a, b) == Abs(a - b)

\* a count of the samples that differ by the tolerance or more
CountAtLeast(diff_array, tolerance) ==
    CountTrue([k \in DOMAIN diff_array |-> diff_array[k] >= tolerance], Len(diff_array))

\* np.sum(diff_array > tolerance): counts channel samples
CountDifferent(diff_array, tolerance) ==
    CountTrue([k \in DOMAIN diff_array |-> diff_array[k] > tolerance], Len(diff_array))

\* diff_array.size: the number of channel samples
DiffArraySize(diff_array) == Len(diff_array)

\* _compare_images once img2 has the size of img1 and both are RGB
CompareArrays(img1, img2, tolerance) ==
    LET img1_array == ToArray(img1)
        img2_array == ToArray(img2)
        n          == Len(img1_array)
        sq         == [k \in 1..n |-> Uint8SquaredDiff(img1_array[k], img2_array[k])]
        mse        == Rat(SumTo(sq, n), n)
        full       == max_pixel_value * max_pixel_value
        similarity == Rat(full * mse.den - mse.num, full * mse.den)
        diff_array == [k \in 1..n |-> ChopsDifference(img1_array[k], img2_array[k])]
        different_pixels == CountDifferent(diff_array, tolerance)
        total_pixels     == DiffArraySize(diff_array)
    IN  [similarity  |-> similarity,
         differences |-> [mse |-> mse,
                          different_pixels |-> different_pixels,
                          total_pixels |-> total_pixels,
                          difference_percentage |-> Rat(different_pixels * 100, total_pixels)]]

\* np.mean of an empty array, and what is computed from it
NaN == Rat(0, 0)
IsNaN(r) == r.den = 0

\* _compare_images when a bitmap has no pixels.  Image.open reads the header
\* only; the pixel data is loaded by the first of resize, convert, difference
\* and np.array, and the library refuses to load or to resample a bitmap of no
\* pixels, and to resize to a size of no pixels (ValueError).  Where it gives
\* the empty array instead (both bitmaps empty, or the target size empty) the
\* mean of no samples is NaN and so is the similarity.
CompareEmpty(img1, img2) ==
    {[kind |-> "raise"]}
    \cup (IF IsEmpty(img1)
          THEN {[kind  |-> "compared",
                 cmp   |-> [similarity  |-> NaN,
                            differences |-> [mse |-> NaN,
                                             different_pixels |-> 0,
                                             total_pixels |-> 0,
                                             difference_percentage |-> NaN]],
                 ghost |-> [kind |-> "compared", size1 |-> img1.size, size2 |-> img1.size,
                            in_size1 |-> img1.size, in_size2 |-> img2.size,
                            resized1 |-> FALSE,
                            resized2 |-> (img1.size # img2.size)]]}
          ELSE {})

\* Which argument _compare_images resizes, and to what size
ResizeTarget(img1, img2) == [arg |-> "img2", size |-> img1.size]

\* _compare_images(img1, img2): the set of possible outcomes, a (result,
\* compared sizes) or an exception
CompareImages(img1, img2, tolerance) ==
    LET rt      == ResizeTarget(img1, img2)
        differ  == img1.size # img2.size
        img1s   == IF differ /\ rt.arg = "img1" THEN Resize(img1, rt.size) ELSE {img1}
        img2s   == IF differ /\ rt.arg = "img2" THEN Resize(img2, rt.size) ELSE {img2}
    IN  IF IsEmpty(img1) \/ IsEmpty(img2) THEN CompareEmpty(img1, img2) ELSE
        {[kind  |-> "compared",
          cmp   |-> CompareArrays(ConvertRGB(a), ConvertRGB(b), tolerance),
          ghost |-> [kind |-> "compared", size1 |-> a.size, size2 |-> b.size,
                     in_size1 |-> img1.size, in_size2 |-> img2.size,
                     resized1 |-> (differ /\ rt.arg = "img1"),
                     resized2 |-> (differ /\ rt.arg = "img2")]]
         : a \in img1s, b \in img2s}

VerificationResult(check_name, status, message, details) ==
    [kind |-> "result", check_name |-> check_name, status |-> status,
     message |-> message, details |-> details]

\* similarity >= self.threshold: no comparison with NaN is true
\* a test that a similarity equal to the threshold does not meet
ExceedsThreshold(similarity, threshold) == ~IsNaN(similarity) /\ ~RatLeq(similarity, threshold)

\* similarity >= self.threshold (False of a NaN)
MeetsThreshold(similarity, threshold) == ~IsNaN(similarity) /\ RatGeq(similarity, threshold)

Falsy(x) == x.kind = "None"

\* _process_screenshot / _take_screenshot: the image, or an exception
CurrentImage(in) ==
    IF ~Falsy(in.screenshot)
    THEN (IF in.screenshot.kind = "image" THEN in.screenshot ELSE [kind |-> "raise"])
    ELSE (IF in.target.kind = "image" THEN in.target ELSE [kind |-> "raise"])

\* Image.open(reference_path): the image, or an exception
ReferenceImage(in) ==
    IF in.reference_path.kind = "image" THEN in.reference_path ELSE [kind |-> "raise"]

\* the handler of verify re-raising instead of returning a verdict
ExceptionReraised == [kind |-> "raise"]

\* except Exception as e: the verdict returned for an exception in the try block
ExceptionVerdict ==
    VerificationResult("ScreenshotComparator", "fail", "comparison_failed", None)

NotCompared == [kind |-> "not_compared"]

\* the verdict of verify for one outcome of _compare_images
ComparisonVerdict(c, in) ==
    IF c.kind = "raise"
    THEN [result |-> ExceptionVerdict, ghost |-> NotCompared]
    ELSE [result |-> VerificationResult("ScreenshotComparator",
                        IF MeetsThreshold(c.cmp.similarity, in.threshold) THEN "pass" ELSE "fail",
                        IF MeetsThreshold(c.cmp.similarity, in.threshold) THEN "matches" ELSE "differs",
                        [kind |-> "details",
                         similarity  |-> c.cmp.similarity,
                         differences |-> c.cmp.differences,
                         threshold   |-> in.threshold]),
          ghost  |-> c.ghost]

\* ScreenshotComparator.verify: the set of possible (result, ghost)
ScreenshotVerify(in) ==
    IF Falsy(in.reference_path) /\ Falsy(in.screenshot)
    THEN {[result |-> VerificationResult("ScreenshotComparator", "fail", "no_reference_or_screenshot", None),
           ghost  |-> NotCompared]}
    ELSE IF CurrentImage(in).kind = "raise"
    THEN {[result |-> ExceptionVerdict, ghost |-> NotCompared]}
    ELSE IF Falsy(in.reference_path)
    THEN {[result |-> VerificationResult("ScreenshotComparator", "fail", "no_reference", None),
           ghost  |-> NotCompared]}
    ELSE IF ReferenceImage(in).kind = "raise"
    THEN {[result |-> ExceptionVerdict, ghost |-> NotCompared]}
    ELSE {ComparisonVerdict(c, in)
          : c \in CompareImages(ReferenceImage(in), CurrentImage(in), in.tolerance)}

Thresholds == {DefaultThreshold, Rat(1, 1)}
Tolerances == {0, DefaultTolerance, 20}

ReferencePaths == Images \cup EmptyImages \cup {None, [kind |-> "missing"]}
Screenshots    == Images \cup EmptyImages \cup {None, [kind |-> "invalid"]}
\* what the driver's get_screenshot_as_png gives when the caller passes no screenshot
DriverShots    == {i \in Images : i.size = <<1, 1>> /\ i.mode = "RGB"} \cup {[kind |-> "broken_driver"]}

BitmapInit ==
    /\ \E ref \in ReferencePaths, shot \in Screenshots, th \in Thresholds, tol \in Tolerances :
         \E tgt \in (IF shot = None THEN DriverShots ELSE {[kind |-> "driver"]}) :
            cmp_in = [kind |-> "call", reference_path |-> ref, screenshot |-> shot,
                      target |-> tgt, threshold |-> th, tolerance |-> tol]
    /\ cmp_out = None /\ cmp_ghost = None
    /\ IdleColor /\ IdleAlign /\ IdleConfig /\ IdleCore /\ IdleContrast /\ IdleRepeat /\ IdleExtra

\* a call of ScreenshotComparator.verify
Verify ==
    /\ cmp_in.kind = "call" /\ cmp_out = None
    /\ \E r \in ScreenshotVerify(cmp_in) :
          /\ cmp_out' = r.result
          /\ cmp_ghost' = r.ghost
    /\ UNCHANGED <<cmp_in, colorVars, alignVars, configVars, coreVars, contrastVars, repeatVars, extraVars>>

BitmapNext == Verify

SpecBitmap == BitmapInit /\ [][BitmapNext]_vars


----------------------------------------------------------------------------
(* Colour parsing: ContrastChecker._parse_color (accessibility.py) and      *)
(* ColorUtils.parse_css_color (utils.py).  A string is a sequence of        *)
(* one-character strings.                                                   *)

Digits   == {"0", "1", "2", "3", "4", "5", "6", "7", "8", "9"}
HexChars == Digits \cup {"a", "b", "c", "d", "e", "f", "A", "B", "C", "D", "E", "F"}
Spaces   == {" "}

Lit(c)        == [t |-> "lit", c |-> c]
Plus(cls)     == [t |-> "plus", cls |-> cls, cap |-> FALSE]
Star(cls)     == [t |-> "star", cls |-> cls, cap |-> FALSE]
Group(cls)    == [t |-> "plus", cls |-> cls, cap |-> TRUE]
Group2(cls)   == [t |-> "two", cls |-> cls, cap |-> TRUE]

\* r'rgb\((\d+),\s*(\d+),\s*(\d+)\)'
RgbPattern ==
    <<Lit("r"), Lit("g"), Lit("b"), Lit("("), Group(Digits), Lit(","), Star(Spaces),
      Group(Digits), Lit(","), Star(Spaces), Group(Digits), Lit(")")>>

\* r'rgba\((\d+),\s*(\d+),\s*(\d+),\s*[\d.]+\)'
RgbaPattern ==
    <<Lit("r"), Lit("g"), Lit("b"), Lit("a"), Lit("("), Group(Digits), Lit(","), Star(Spaces),
      Group(Digits), Lit(","), Star(Spaces), Group(Digits), Lit(","), Star(Spaces),
      Plus(Digits \cup {"."}), Lit(")")>>

\* a pattern of lower-case hexadecimal digits only
HexPatternLowerCase ==
    <<Lit("#"), Group2(Digits \cup {"a", "b", "c", "d", "e", "f"}),
      Group2(Digits \cup {"a", "b", "c", "d", "e", "f"}),
      Group2(Digits \cup {"a", "b", "c", "d", "e", "f"})>>

\* r'#([0-9a-fA-F]{2})([0-9a-fA-F]{2})([0-9a-fA-F]{2})'
HexPattern == <<Lit("#"), Group2(HexChars), Group2(HexChars), Group2(HexChars)>>

RECURSIVE RunEnd(_, _, _)
\* the first position >= pos whose character is not in cls (Len(s) + 1 if none)
RunEnd(s, pos, cls) ==
    IF pos <= Len(s) /\ s[pos] \in cls THEN RunEnd(s, pos + 1, cls) ELSE pos

RECURSIVE MatchFrom(_, _, _, _, _)
\* re.match of the pattern elements i.. at position pos of s.  In the three
\* patterns the character after each repetition is not in the repeated class,
\* so the greedy match is the only one and no backtracking is needed.
MatchFrom(pat, i, s, pos, caps) ==
    IF i > Len(pat) THEN [ok |-> TRUE, end |-> pos, groups |-> caps]
    ELSE LET e == pat[i] IN
         CASE e.t = "lit" ->
                IF pos <= Len(s) /\ s[pos] = e.c
                THEN MatchFrom(pat, i + 1, s, pos + 1, caps)
                ELSE [ok |-> FALSE, end |-> pos, groups |-> caps]
           [] e.t = "plus" ->
                LET q == RunEnd(s, pos, e.cls) IN
                IF q = pos THEN [ok |-> FALSE, end |-> pos, groups |-> caps]
                ELSE MatchFrom(pat, i + 1, s, q,
                               IF e.cap THEN Append(caps, SubSeq(s, pos, q - 1)) ELSE caps)
           [] e.t = "star" ->
                MatchFrom(pat, i + 1, s, RunEnd(s, pos, e.cls), caps)
           [] e.t = "two" ->
                IF pos + 1 <= Len(s) /\ s[pos] \in e.cls /\ s[pos + 1] \in e.cls
                THEN MatchFrom(pat, i + 1, s, pos + 2, Append(caps, SubSeq(s, pos, pos + 1)))
                ELSE [ok |-> FALSE, end |-> pos, groups |-> caps]

\* re.match(pattern, s): anchored at the start of s only
ReMatch(pat, s) == MatchFrom(pat, 1, s, 1, <<>>)

DigitValue(c) ==
    CASE c = "0" -> 0 [] c = "1" -> 1 [] c = "2" -> 2 [] c = "3" -> 3 [] c = "4" -> 4
      [] c = "5" -> 5 [] c = "6" -> 6 [] c = "7" -> 7 [] c = "8" -> 8 [] c = "9" -> 9
      [] c \in {"a", "A"} -> 10 [] c \in {"b", "B"} -> 11 [] c \in {"c", "C"} -> 12
      [] c \in {"d", "D"} -> 13 [] c \in {"e", "E"} -> 14 [] c \in {"f", "F"} -> 15

RECURSIVE ParseInt(_, _)
\* int(digits, base)
ParseInt(digits, base) ==
    IF Len(digits) = 0 THEN 0
    ELSE ParseInt(SubSeq(digits, 1, Len(digits) - 1), base) * base
         + DigitValue(digits[Len(digits)])

ParsedColor(r, g, b) == [kind |-> "rgb", rgb |-> <<r, g, b>>]

Transparent == <<"t", "r", "a", "n", "s", "p", "a", "r", "e", "n", "t">>

\* the body shared, line for line, by _parse_color and parse_css_color
ParseColorBody(s) ==
    IF s = <<>> \/ s = Transparent THEN None
    ELSE LET rgb_match  == ReMatch(RgbPattern, s)
             rgba_match == ReMatch(RgbaPattern, s)
             hex_match  == ReMatch(HexPattern, s)
         IN  IF rgb_match.ok
             THEN ParsedColor(ParseInt(rgb_match.groups[1], 10),
                              ParseInt(rgb_match.groups[2], 10),
                              ParseInt(rgb_match.groups[3], 10))
             ELSE IF rgba_match.ok
             THEN ParsedColor(ParseInt(rgba_match.groups[1], 10),
                              ParseInt(rgba_match.groups[2], 10),
                              ParseInt(rgba_match.groups[3], 10))
             ELSE IF hex_match.ok
             THEN ParsedColor(ParseInt(hex_match.groups[1], 16),
                              ParseInt(hex_match.groups[2], 16),
                              ParseInt(hex_match.groups[3], 16))
             ELSE None

\* ContrastChecker._parse_color
_parse_color(s) == ParseColorBody(s)

\* ColorUtils.parse_css_color
parse_css_color(s) == ParseColorBody(s)

\* The inputs: strings built from the three notations, with and without a
\* blank after the commas and trailing characters, and other strings.
RedStrings   == {<<"0">>, <<"7">>, <<"2", "5", "5">>, <<"9", "9", "9">>}
OtherStrings == {<<"0">>, <<"2", "5", "5">>}
AlphaStrings == {<<"0">>, <<"0", ".", "0">>, <<"0", ".", "5">>, <<"1">>}
Separators   == {<<",">>, <<",", " ">>}
Suffixes     == {<<>>, <<"x">>}
HexPairs     == {<<"0", "0">>, <<"f", "f">>, <<"F", "F">>, <<"8", "0">>, <<"a", "B">>}
HexSuffixes  == {<<>>, <<"z", "z">>, <<"8", "0">>}

RgbString(r, g, b, sep) == <<"r", "g", "b", "(">> \o r \o sep \o g \o sep \o b \o <<")">>
RgbaString(r, g, b, a, sep) ==
    <<"r", "g", "b", "a", "(">> \o r \o sep \o g \o sep \o b \o sep \o a \o <<")">>
HexString(r, g, b) == <<"#">> \o r \o g \o b

RgbInputs  == {RgbString(r, g, b, sep) \o x :
                 r \in RedStrings, g \in OtherStrings, b \in OtherStrings,
                 sep \in Separators, x \in Suffixes}
RgbaInputs == {RgbaString(r, g, b, a, sep) \o x :
                 r \in RedStrings, g \in OtherStrings, b \in {<<"0">>},
                 a \in AlphaStrings, sep \in Separators, x \in Suffixes}
HexInputs  == {HexString(r, g, b) \o x :
                 r \in HexPairs, g \in {<<"0", "0">>, <<"f", "f">>}, b \in {<<"0", "0">>, <<"8", "0">>},
                 x \in HexSuffixes}
OtherInputs ==
    {<<>>, Transparent, <<"r", "e", "d">>, <<"#", "f", "f", "f">>, <<"#", "g", "g", "0", "0", "0", "0">>,
     <<" ">> \o RgbString(<<"1">>, <<"2">>, <<"3">>, <<",", " ">>),
     <<"R", "G", "B", "(", "1", ",", "2", ",", "3", ")">>,
     <<"r", "g", "b", "(", "1", ",", "2", ")">>,
     <<"r", "g", "b", "(", "-", "1", ",", "0", ",", "0", ")">>,
     <<"r", "g", "b", "(", "1", ".", "5", ",", "0", ",", "0", ")">>,
     <<"r", "g", "b", "(", "1", " ", ",", "0", ",", "0", ")">>,
     <<"r", "g", "b", "a", "(", "1", ",", "2", ",", "3", ")">>,
     <<"r", "g", "b", "a", "(", "1", ",", "2", ",", "3", ",", ")">>,
     <<"r", "g", "b", "(", "1", ",", "2", ",", "3", ",", "0", ".", "5", ")">>,
     <<"h", "s", "l", "(", "0", ",", "0", ",", "0", ")">>}

ColorInputs == RgbInputs \cup RgbaInputs \cup HexInputs \cup OtherInputs

ColorInit ==
    /\ color_str \in ColorInputs
    /\ parse_out = [kind |-> "idle"]
    /\ IdleBitmap /\ IdleAlign /\ IdleConfig /\ IdleCore /\ IdleContrast /\ IdleRepeat /\ IdleExtra

\* a call of ContrastChecker._parse_color(color_str)
ParseColor ==
    /\ parse_out.kind = "idle"
    /\ parse_out' = [kind |-> "returned", by |-> "_parse_color", value |-> _parse_color(color_str)]
    /\ UNCHANGED <<color_str, bitmapVars, alignVars, configVars, coreVars, contrastVars, repeatVars, extraVars>>

\* a call of ColorUtils.parse_css_color(color_str)
ParseCssColor ==
    /\ parse_out.kind = "idle"
    /\ parse_out' = [kind |-> "returned", by |-> "parse_css_color", value |-> parse_css_color(color_str)]
    /\ UNCHANGED <<color_str, bitmapVars, alignVars, configVars, coreVars, contrastVars, repeatVars, extraVars>>

ColorNext == ParseColor \/ ParseCssColor

SpecColor == ColorInit /\ [][ColorNext]_vars


----------------------------------------------------------------------------
(* AlignmentChecker (layout.py).  A bounding box is [x, y, width, height]. *)
(* An element spec of a check resolves to a box, or find_element raises.   *)

DefaultColumns == 2
DefaultAlignmentTolerance == 5

MaxBoxes == 6

Box(x, y, w, h) == [x |-> x, y |-> y, width |-> w, height |-> h]

NoTag == [axis |-> "none", index |-> 0]

CheckEntry(type, passed, text, max_diff) ==
    [type |-> type, passed |-> passed, message |-> [text |-> text, max_diff |-> max_diff],
     tag |-> NoTag]

\* One sub-check of _check_horizontal_alignment / _check_vertical_alignment:
\* all positions equal, or max - min <= self.tolerance
PositionCheck(positions, tolerance, type) ==
    LET values == Range(positions) IN
    IF Cardinality(values) = 1
    THEN CheckEntry(type, TRUE, "all_aligned", 0)
    ELSE LET max_diff == SetMax(values) - SetMin(values) IN
         IF max_diff <= tolerance
         THEN CheckEntry(type, TRUE, "within_tolerance", max_diff)
         ELSE CheckEntry(type, FALSE, "exceeds_tolerance", max_diff)

\* a mix-up of the axes: the left edge read where the top edge is meant
TopPositionOfLeftEdge(bounds) == bounds.x

\* the position the top-alignment sub-check of _check_horizontal_alignment reads
TopPosition(bounds) == bounds.y

\* _check_horizontal_alignment: the checks it appends
HorizontalAlignmentChecks(bounds_list, tolerance) ==
    <<PositionCheck([i \in DOMAIN bounds_list |-> TopPosition(bounds_list[i])],
                    tolerance, "top_alignment"),
      PositionCheck([i \in DOMAIN bounds_list |->
                        bounds_list[i].y + (bounds_list[i].height \div 2)],
                    tolerance, "center_alignment")>>

\* _check_vertical_alignment: the checks it appends
VerticalAlignmentChecks(bounds_list, tolerance) ==
    <<PositionCheck([i \in DOMAIN bounds_list |-> bounds_list[i].x],
                    tolerance, "left_alignment"),
      PositionCheck([i \in DOMAIN bounds_list |->
                        bounds_list[i].x + (bounds_list[i].width \div 2)],
                    tolerance, "center_alignment")>>

AllPassed(checks) == \A i \in DOMAIN checks : checks[i].passed

\* rows that are cut after DefaultColumns boxes whatever the check asks for
GridRowsOfDefaultColumns(bounds_list, expected_columns) ==
    LET n == Len(bounds_list)
        nrows == (n + DefaultColumns - 1) \div DefaultColumns
    IN  [r \in 1..nrows |->
            SubSeq(bounds_list, (r - 1) * DefaultColumns + 1,
                   IF r * DefaultColumns < n THEN r * DefaultColumns ELSE n)]

\* rows.append(bounds_list[i:i + expected_columns]) for i in range(0, len, expected_columns)
GridRows(bounds_list, expected_columns) ==
    LET n == Len(bounds_list)
        nrows == (n + expected_columns - 1) \div expected_columns
    IN  [r \in 1..nrows |->
            SubSeq(bounds_list, (r - 1) * expected_columns + 1,
                   IF r * expected_columns < n THEN r * expected_columns ELSE n)]

Tagged(checks, axis, index) ==
    [i \in DOMAIN checks |-> [checks[i] EXCEPT !.tag = [axis |-> axis, index |-> index]]]

RECURSIVE RowChecks(_, _, _)
\* for i, row in enumerate(rows): the tagged checks of rows i.. (i is 1-based here,
\* the tag carries the 0-based index of the code)
RowChecks(rows, i, tolerance) ==
    IF i > Len(rows) THEN <<>>
    ELSE (IF Len(rows[i]) > 1
          THEN Tagged(HorizontalAlignmentChecks(rows[i], tolerance), "row", i - 1)
          ELSE <<>>)
         \o RowChecks(rows, i + 1, tolerance)

RECURSIVE ColumnElements(_, _, _)
\* [row[col] for row in rows if col < len(row)], from row r on (col 0-based)
ColumnElements(rows, r, col) ==
    IF r > Len(rows) THEN <<>>
    ELSE (IF col < Len(rows[r]) THEN <<rows[r][col + 1]>> ELSE <<>>)
         \o ColumnElements(rows, r + 1, col)

RECURSIVE ColumnChecks(_, _, _, _)
\* for col in range(expected_columns): the tagged checks of columns col..
ColumnChecks(rows, col, expected_columns, tolerance) ==
    IF col >= expected_columns THEN <<>>
    ELSE LET column_elements == ColumnElements(rows, 1, col) IN
         (IF Len(column_elements) > 1
          THEN Tagged(VerticalAlignmentChecks(column_elements, tolerance), "column", col)
          ELSE <<>>)
         \o ColumnChecks(rows, col + 1, expected_columns, tolerance)

\* _check_grid_alignment: the checks it appends
GridAlignmentChecks(bounds_list, columns, tolerance) ==
    LET expected_columns == IF columns = None THEN DefaultColumns ELSE columns.v
        rows == GridRows(bounds_list, expected_columns)
    IN  RowChecks(rows, 1, tolerance) \o ColumnChecks(rows, 0, expected_columns, tolerance)

AlignmentResultDict(in, passed, checks) ==
    [kind |-> "dict", elements |-> Len(in.elements), alignment_type |-> in.type,
     passed |-> passed, checks |-> checks]

\* a test that lets a single element through
NoElements(elements) == Len(elements) < 1

\* if len(elements) < 2
TooFewElements(elements) == Len(elements) < 2

\* AlignmentChecker._check_alignment: the result dict, or the exception of find_element
CheckAlignment(in) ==
    IF TooFewElements(in.elements)
    THEN AlignmentResultDict(in, FALSE,
            <<CheckEntry("insufficient_elements", FALSE, "need_at_least_2", 0)>>)
    ELSE IF \E i \in DOMAIN in.elements : ~in.elements[i].found
    THEN [kind |-> "raise", error |-> "NoSuchElementException"]
    ELSE LET element_bounds == [i \in DOMAIN in.elements |-> in.elements[i].bounds]
             checks ==
                CASE in.type = "horizontal" -> HorizontalAlignmentChecks(element_bounds, in.tolerance)
                  [] in.type = "vertical"   -> VerticalAlignmentChecks(element_bounds, in.tolerance)
                  [] in.type = "grid"       -> GridAlignmentChecks(element_bounds, in.columns, in.tolerance)
                  [] OTHER                  -> <<>>
         IN  AlignmentResultDict(in, AllPassed(checks), checks)

\* The inputs: n boxes laid out row-major in gcols columns of 100px by rows of
\* 50px, 80 x 20 each; row shift_row moved by (dx, dy); each box lowered by
\* stagger px more than the one before it; box tall (if any) twice as high.
Layout(n, gcols, shift_row, dx, dy, stagger, tall) ==
    [k \in 1..n |->
        LET row == (k - 1) \div gcols
            col == (k - 1) % gcols
        IN  Box(col * 100 + (IF row = shift_row THEN dx ELSE 0),
                row * 50 + (IF row = shift_row THEN dy ELSE 0) + (k - 1) * stagger,
                80,
                IF k = tall THEN 40 ELSE 20)]

Shifts == {<<0, 0>>, <<20, 0>>, <<0, 20>>}

Layouts ==
    {Layout(n, gcols, sr, d[1], d[2], st, tall) :
        n \in 0..MaxBoxes, gcols \in {2, 3}, sr \in {0, 1}, d \in Shifts,
        st \in {0, 2}, tall \in {0, 2}}

\* two boxes side by side (one above the other) whose centres are 5.5px apart:
\* the second is 31px high (wide), the first 20px
CenterLayouts ==
    {<<Box(0, 0, 80, 20), Box(100, 0, 80, 31)>>,
     <<Box(0, 0, 20, 80), Box(0, 100, 31, 80)>>}

IntArg(v) == [kind |-> "int", v |-> v]

AlignInit ==
    /\ \E boxes \in Layouts \cup CenterLayouts, missing \in {0, 1}, type \in {"horizontal", "vertical", "grid", "diagonal"},
          columns \in {None, IntArg(2), IntArg(3)}, tolerance \in {1, DefaultAlignmentTolerance} :
          /\ missing <= Len(boxes)
          /\ (type # "grid" => columns = None)
          /\ align_in = [kind |-> "call",
                         elements |-> [i \in DOMAIN boxes |->
                                          [found |-> (i # missing), bounds |-> boxes[i]]],
                         type |-> type, columns |-> columns, tolerance |-> tolerance]
    /\ align_out = None
    /\ IdleBitmap /\ IdleColor /\ IdleConfig /\ IdleCore /\ IdleContrast /\ IdleRepeat /\ IdleExtra

\* a call of AlignmentChecker._check_alignment(driver, check)
CheckAlignmentCall ==
    /\ align_in.kind = "call" /\ align_out = None
    /\ align_out' = CheckAlignment(align_in)
    /\ UNCHANGED <<align_in, bitmapVars, colorVars, configVars, coreVars, contrastVars, repeatVars, extraVars>>

AlignNext == CheckAlignmentCall

SpecAlign == AlignInit /\ [][AlignNext]_vars


----------------------------------------------------------------------------
(* Configuration (config.py) and the analyzers' constructors.              *)
(* A config argument is None, a dict (a function from keys to values) or a *)
(* VerificationConfig object, which has attributes and no get method.      *)

ConfigFields ==
    {"screenshot_threshold", "screenshot_tolerance", "alignment_tolerance",
     "min_contrast_ratio", "large_text_ratio"}

\* the dataclass defaults of VerificationConfig
VerificationConfigDefaults ==
    [screenshot_threshold |-> Rat(95, 100),
     screenshot_tolerance |-> Rat(5, 1),
     alignment_tolerance  |-> Rat(5, 1),
     min_contrast_ratio   |-> Rat(45, 10),
     large_text_ratio     |-> Rat(30, 10)]

\* a value a caller sets a field to, different from every default
CustomValue ==
    [screenshot_threshold |-> Rat(98, 100),
     screenshot_tolerance |-> Rat(10, 1),
     alignment_tolerance  |-> Rat(2, 1),
     min_contrast_ratio   |-> Rat(70, 10),
     large_text_ratio     |-> Rat(40, 10),
     threshold            |-> Rat(99, 100),
     tolerance            |-> Rat(12, 1)]

\* VerificationConfig(**{f: CustomValue[f] for f in set_fields})
VerificationConfig(set_fields) ==
    [kind |-> "VerificationConfig", set_fields |-> set_fields,
     attrs |-> [f \in ConfigFields |->
                   IF f \in set_fields THEN CustomValue[f] ELSE VerificationConfigDefaults[f]]]

\* VerificationConfig.to_dict(): asdict(self)
to_dict(config) == [kind |-> "dict", from |-> config.set_fields, d |-> config.attrs]

\* config.get(key, default) as the constructors call it: on the argument itself
ConfigGet(config, key, default) ==
    IF config.kind # "dict" THEN [kind |-> "raise", error |-> "AttributeError"]
    ELSE [kind |-> "value", v |-> IF key \in DOMAIN config.d THEN config.d[key] ELSE default]

\* the key ScreenshotComparator.__init__ reads its similarity threshold from
ScreenshotThresholdKey == "threshold"

Analyzer(cls, fields) == [kind |-> "analyzer", cls |-> cls, fields |-> fields]

Raised(error) == [kind |-> "raise", error |-> error]

\* ScreenshotComparator.__init__
ScreenshotComparatorInit(config) ==
    LET threshold == ConfigGet(config, ScreenshotThresholdKey, Rat(95, 100))
        tolerance == ConfigGet(config, "tolerance", Rat(5, 1))
    IN  IF threshold.kind = "raise" THEN Raised(threshold.error)
        ELSE IF tolerance.kind = "raise" THEN Raised(tolerance.error)
        ELSE Analyzer("ScreenshotComparator",
                      [threshold |-> threshold.v, tolerance |-> tolerance.v])

\* ContrastChecker.__init__
ContrastCheckerInit(config) ==
    LET min_contrast_ratio == ConfigGet(config, "min_contrast_ratio", Rat(45, 10))
        large_text_ratio   == ConfigGet(config, "large_text_ratio", Rat(30, 10))
    IN  IF min_contrast_ratio.kind = "raise" THEN Raised(min_contrast_ratio.error)
        ELSE IF large_text_ratio.kind = "raise" THEN Raised(large_text_ratio.error)
        ELSE Analyzer("ContrastChecker",
                      [min_contrast_ratio |-> min_contrast_ratio.v,
                       large_text_ratio |-> large_text_ratio.v])

\* AlignmentChecker.__init__
AlignmentCheckerInit(config) ==
    LET tolerance == ConfigGet(config, "alignment_tolerance", Rat(5, 1))
    IN  IF tolerance.kind = "raise" THEN Raised(tolerance.error)
        ELSE Analyzer("AlignmentChecker", [tolerance |-> tolerance.v])

RawKeys == {"threshold", "tolerance", "alignment_tolerance", "min_contrast_ratio"}

\* The config arguments a caller passes: nothing, a VerificationConfig, its
\* to_dict(), or a hand-written dict.
ConfigArgs ==
    {None}
    \cup {VerificationConfig(fs) : fs \in SUBSET ConfigFields}
    \cup {to_dict(VerificationConfig(fs)) : fs \in SUBSET ConfigFields}
    \cup {[kind |-> "dict", from |-> {}, d |-> [k \in ks |-> CustomValue[k]]] : ks \in SUBSET RawKeys}

ConfigInit ==
    /\ cfg_in \in ConfigArgs
    /\ cfg_out = None
    /\ IdleBitmap /\ IdleColor /\ IdleAlign /\ IdleCore /\ IdleContrast /\ IdleRepeat /\ IdleExtra

\* ScreenshotComparator(cfg_in)
NewScreenshotComparator ==
    /\ cfg_out = None
    /\ cfg_out' = ScreenshotComparatorInit(cfg_in)
    /\ UNCHANGED <<cfg_in, bitmapVars, colorVars, alignVars, coreVars, contrastVars, repeatVars, extraVars>>

\* ContrastChecker(cfg_in)
NewContrastChecker ==
    /\ cfg_out = None
    /\ cfg_out' = ContrastCheckerInit(cfg_in)
    /\ UNCHANGED <<cfg_in, bitmapVars, colorVars, alignVars, coreVars, contrastVars, repeatVars, extraVars>>

\* AlignmentChecker(cfg_in)
NewAlignmentChecker ==
    /\ cfg_out = None
    /\ cfg_out' = AlignmentCheckerInit(cfg_in)
    /\ UNCHANGED <<cfg_in, bitmapVars, colorVars, alignVars, coreVars, contrastVars, repeatVars, extraVars>>

ConfigNext == NewScreenshotComparator \/ NewContrastChecker \/ NewAlignmentChecker

SpecConfig == ConfigInit /\ [][ConfigNext]_vars


----------------------------------------------------------------------------
(* Core (core.py): VerificationResult objects live in heap and are named   *)
(* by their index; a verifier's results list and the suite's results list  *)
(* hold such indices.  verify is abstract in BaseVerifier: it returns a    *)
(* new result with some status, or raises.  run_verification and run_all   *)
(* are followed statement by statement, one activation per thread.         *)

Verifiers == {"v1", "v2"}
Threads   == {"t1"}
Statuses  == {"pass", "fail", "warning", "skip"}
VerifyStatuses == {"pass", "fail"}

\* What a call is made on: a page that conforms, a page that deviates, a
\* driver that cannot be reached.  verify works on its arguments only, so
\* the target of the call decides what it returns or that it raises.
Targets == {"conforming", "deviating", "unreachable"}

VerifyRaises(target) == target = "unreachable"

StatusOf(target) == IF target = "conforming" THEN "pass" ELSE "fail"

MaxResults == 2
MaxSuite   == 2

\* Times are not followed: datetime.now() is the token "now", and a measured
\* duration (time.time() - start_time) * 1000 is the token Measured.
Now      == "now"
Measured == [kind |-> "ms"]

ResultObject(check_name, status, message, details, timestamp, duration_ms) ==
    [check_name |-> check_name, status |-> status, message |-> message,
     details |-> details, timestamp |-> timestamp, duration_ms |-> duration_ms]

\* the locals of an activation; seen is self.results as it was when
\* run_verification was entered, base the number of results that existed
\* when run_all was entered
IdleFrame ==
    [pc |-> "idle", verifier |-> "none", target |-> "none", result |-> 0,
     in_run_all |-> FALSE, i |-> 0, seen |-> <<>>, base |-> 0]

\* how many results the activation of thread t will still create
RECURSIVE Reserved(_)
Reserved(T) ==
    IF T = {} THEN 0
    ELSE LET t == CHOOSE x \in T : TRUE
             f == frames[t]
             own == IF f.pc \in {"rv_verify", "rv_except"} THEN 1 ELSE 0
             rest == IF ~f.in_run_all THEN 0
                     ELSE IF f.pc = "ra_next" THEN Len(suite.verifiers) - f.i + 1
                     ELSE Len(suite.verifiers) - f.i
         IN  own + rest + Reserved(T \ {t})

Room(need) == Len(heap) + Reserved(DOMAIN frames) + need <= MaxResults

CoreInit ==
    /\ heap = <<>>
    /\ results = [v \in Verifiers |-> <<>>]
    /\ suite = [verifiers |-> <<>>, results |-> <<>>]
    /\ frames = [t \in Threads |-> IdleFrame]
    /\ observed = None
    /\ IdleBitmap /\ IdleColor /\ IdleAlign /\ IdleConfig /\ IdleContrast /\ IdleRepeat /\ IdleExtra

otherVars == <<bitmapVars, colorVars, alignVars, configVars, contrastVars, repeatVars, extraVars>>

\* a caller calls verifier.verify(...) itself: a new result, duration_ms None
CallVerify(t, v) ==
    /\ frames[t].pc = "idle" /\ Room(1)
    /\ \E target \in Targets :
          /\ ~VerifyRaises(target)
          /\ heap' = Append(heap, ResultObject(v, StatusOf(target), "verified", target, Now, None))
    /\ observed' = [kind |-> "verify", result |-> Len(heap) + 1]
    /\ UNCHANGED <<results, suite, frames, otherVars>>

\* run_verification, line 55: start_time = time.time()
RunVerificationCall(t, v) ==
    /\ frames[t].pc = "idle" /\ Room(1)
    /\ \E target \in Targets :
          frames' = [frames EXCEPT ![t] = [IdleFrame EXCEPT !.pc = "rv_verify", !.verifier = v,
                                                           !.target = target,
                                                           !.seen = results[v]]]
    /\ observed' = None
    /\ UNCHANGED <<heap, results, suite, otherVars>>

\* run_verification, line 58: result = self.verify(target, **kwargs), which may raise
RunVerificationVerify(t) ==
    /\ frames[t].pc = "rv_verify"
    /\ IF ~VerifyRaises(frames[t].target)
       THEN /\ heap' = Append(heap, ResultObject(frames[t].verifier, StatusOf(frames[t].target),
                                                 "verified", frames[t].target, Now, None))
            /\ frames' = [frames EXCEPT ![t].pc = "rv_stamp", ![t].result = Len(heap) + 1]
       ELSE /\ frames' = [frames EXCEPT ![t].pc = "rv_except"]
            /\ heap' = heap
    /\ observed' = None
    /\ UNCHANGED <<results, suite, otherVars>>

\* a stamp that also refreshes the timestamp of the result
StampedAndRetimedResult(r) == [r EXCEPT !.duration_ms = Measured, !.timestamp = "later"]

\* the field run_verification assigns on the result verify returned
StampedResult(r) == [r EXCEPT !.duration_ms = Measured]

\* run_verification, line 59: result.duration_ms = (time.time() - start_time) * 1000
RunVerificationStamp(t) ==
    /\ frames[t].pc = "rv_stamp"
    /\ heap' = [heap EXCEPT ![frames[t].result] = StampedResult(@)]
    /\ frames' = [frames EXCEPT ![t].pc = "rv_append"]
    /\ observed' = None
    /\ UNCHANGED <<results, suite, otherVars>>

\* an error result that reports the check as skipped
ErrorResultSkipped(check_name) ==
    ResultObject(check_name, "skip", "verification_failed_with_error", None, Now, Measured)

\* error_result = VerificationResult(check_name=..., status=FAIL, message=..., duration_ms=...)
ErrorResult(check_name) ==
    ResultObject(check_name, "fail", "verification_failed_with_error", None, Now, Measured)

\* run_verification, lines 62-69: the error result of a verify that raised
RunVerificationExcept(t) ==
    /\ frames[t].pc = "rv_except"
    /\ heap' = Append(heap, ErrorResult(frames[t].verifier))
    /\ frames' = [frames EXCEPT ![t].pc = "rv_append", ![t].result = Len(heap) + 1]
    /\ observed' = None
    /\ UNCHANGED <<results, suite, otherVars>>

\* the list a thread saw when it entered run_verification
ResultsSeenAtCall(t) == frames[t].seen

\* self.results, at the time of the append
ResultsAtAppend(t) == results[frames[t].verifier]

\* run_verification, lines 60-61 / 70-71: self.results.append(result); return result
RunVerificationAppend(t) ==
    /\ frames[t].pc = "rv_append"
    /\ results' = [results EXCEPT ![frames[t].verifier] =
                                      Append(ResultsAtAppend(t), frames[t].result)]
    /\ IF frames[t].in_run_all
       THEN /\ frames' = [frames EXCEPT ![t].pc = "ra_append"]
            /\ observed' = None
       ELSE /\ frames' = [frames EXCEPT ![t] = IdleFrame]
            /\ observed' = [kind |-> "run_verification", result |-> frames[t].result]
    /\ UNCHANGED <<heap, suite, otherVars>>

\* VerificationSuite.add_verifier
AddVerifier(v) ==
    /\ Len(suite.verifiers) < MaxSuite
    /\ \A t \in DOMAIN frames : ~frames[t].in_run_all
    /\ suite' = [suite EXCEPT !.verifiers = Append(@, v)]
    /\ observed' = None
    /\ UNCHANGED <<heap, results, frames, otherVars>>

\* a run_all that keeps the results of the runs before it
ResultsOfEarlierRuns == suite.results

\* self.results.clear()
ClearedResults == <<>>

\* run_all, line 103: self.results.clear(), then the loop starts
RunAllCall(t) ==
    /\ frames[t].pc = "idle" /\ Room(Len(suite.verifiers))
    /\ suite' = [suite EXCEPT !.results = ClearedResults]
    /\ \E target \in Targets :
          frames' = [frames EXCEPT ![t] = [IdleFrame EXCEPT !.pc = "ra_next", !.in_run_all = TRUE,
                                                           !.i = 1, !.target = target,
                                                           !.base = Len(heap)]]
    /\ observed' = None
    /\ UNCHANGED <<heap, results, otherVars>>

\* run_all, lines 105-106 and 109: the next verifier's run_verification starts,
\* or the loop is over and a copy of self.results is returned
RunAllNext(t) ==
    /\ frames[t].pc = "ra_next"
    /\ IF frames[t].i <= Len(suite.verifiers)
       THEN /\ frames' = [frames EXCEPT ![t].pc = "rv_verify",
                                        ![t].verifier = suite.verifiers[frames[t].i],
                                        ![t].seen = results[suite.verifiers[frames[t].i]]]
            /\ observed' = None
       ELSE /\ frames' = [frames EXCEPT ![t] = IdleFrame]
            /\ observed' = [kind |-> "run_all", results |-> suite.results]
    /\ UNCHANGED <<heap, results, suite, otherVars>>

\* run_all, line 107: self.results.append(result)
RunAllAppend(t) ==
    /\ frames[t].pc = "ra_append"
    /\ suite' = [suite EXCEPT !.results = Append(@, frames[t].result)]
    /\ frames' = [frames EXCEPT ![t].pc = "ra_next", ![t].i = @ + 1]
    /\ observed' = None
    /\ UNCHANGED <<heap, results, otherVars>>

\* BaseVerifier.clear_results
ClearResults(v) ==
    /\ results[v] # <<>>
    /\ results' = [results EXCEPT ![v] = <<>>]
    /\ observed' = None
    /\ UNCHANGED <<heap, suite, frames, otherVars>>

\* the number of references in refs whose result has status st
StatusCount(refs, st) == Cardinality({i \in DOMAIN refs : heap[refs[i]].status = st})

\* BaseVerifier.get_summary
get_summary(v) == [st \in Statuses |-> StatusCount(results[v], st)]

\* VerificationSuite.get_suite_summary (total_duration_ms: how many durations it adds up)
get_suite_summary ==
    [total_checks |-> Len(suite.results),
     status_counts |-> [st \in Statuses |-> StatusCount(suite.results, st)],
     total_duration_ms |->
        SumTo([i \in DOMAIN suite.results |->
                  IF heap[suite.results[i]].duration_ms = None THEN 0 ELSE 1],
              Len(suite.results)),
     verifiers |-> [i \in DOMAIN suite.verifiers |->
                      [name |-> suite.verifiers[i], results |-> get_summary(suite.verifiers[i])]]]

\* ReportGenerator._result_to_dict over a list of results
ResultDicts(refs) == [i \in DOMAIN refs |-> heap[refs[i]]]

\* a caller asks a verifier for its summary
GetSummary(v) ==
    /\ observed = None \/ observed.kind # "summary"
    /\ results[v] # <<>>
    /\ observed' = [kind |-> "summary", of |-> v, summary |-> get_summary(v)]
    /\ UNCHANGED <<heap, results, suite, frames, otherVars>>

\* a caller asks the suite for its summary
GetSuiteSummary ==
    /\ observed = None \/ observed.kind # "suite_summary"
    /\ suite.verifiers # <<>>
    /\ observed' = [kind |-> "suite_summary", summary |-> get_suite_summary]
    /\ UNCHANGED <<heap, results, suite, frames, otherVars>>

\* a caller renders verifier.get_results() with ReportGenerator.generate_json_report
GenerateReport(v) ==
    /\ observed = None \/ observed.kind # "report"
    /\ results[v] # <<>>
    /\ observed' = [kind |-> "report", of |-> v, results |-> ResultDicts(results[v])]
    /\ UNCHANGED <<heap, results, suite, frames, otherVars>>

CoreNext ==
    \/ \E t \in DOMAIN frames, v \in Verifiers : CallVerify(t, v)
    \/ \E t \in DOMAIN frames, v \in Verifiers : RunVerificationCall(t, v)
    \/ \E t \in DOMAIN frames : RunVerificationVerify(t)
    \/ \E t \in DOMAIN frames : RunVerificationStamp(t)
    \/ \E t \in DOMAIN frames : RunVerificationExcept(t)
    \/ \E t \in DOMAIN frames : RunVerificationAppend(t)
    \/ \E v \in Verifiers : AddVerifier(v)
    \/ \E t \in DOMAIN frames : RunAllCall(t)
    \/ \E t \in DOMAIN frames : RunAllNext(t)
    \/ \E t \in DOMAIN frames : RunAllAppend(t)
    \/ \E v \in Verifiers : ClearResults(v)
    \/ \E v \in Verifiers : GetSummary(v)
    \/ GetSuiteSummary
    \/ \E v \in Verifiers : GenerateReport(v)

SpecCore == CoreInit /\ [][CoreNext]_vars

\* Two threads that call run_verification, on the same verifier or not, their
\* statements interleaved in every order.
TwoThreads == {"t1", "t2"}

ThreadsInit ==
    /\ heap = <<>>
    /\ results = [v \in Verifiers |-> <<>>]
    /\ suite = [verifiers |-> <<>>, results |-> <<>>]
    /\ frames = [t \in TwoThreads |-> IdleFrame]
    /\ observed = None
    /\ IdleBitmap /\ IdleColor /\ IdleAlign /\ IdleConfig /\ IdleContrast /\ IdleRepeat /\ IdleExtra

ThreadsNext ==
    \/ \E t \in DOMAIN frames, v \in Verifiers : RunVerificationCall(t, v)
    \/ \E t \in DOMAIN frames : RunVerificationVerify(t)
    \/ \E t \in DOMAIN frames : RunVerificationStamp(t)
    \/ \E t \in DOMAIN frames : RunVerificationExcept(t)
    \/ \E t \in DOMAIN frames : RunVerificationAppend(t)

SpecThreads == ThreadsInit /\ [][ThreadsNext]_vars

----------------------------------------------------------------------------
(* A suite that is only built and run: add_verifier, run_all and            *)
(* get_suite_summary, and nothing else of core.py.                          *)

SuiteNext ==
    \/ \E v \in Verifiers : AddVerifier(v)
    \/ \E t \in DOMAIN frames : RunAllCall(t)
    \/ \E t \in DOMAIN frames : RunAllNext(t)
    \/ \E t \in DOMAIN frames : RunVerificationVerify(t)
    \/ \E t \in DOMAIN frames : RunVerificationStamp(t)
    \/ \E t \in DOMAIN frames : RunVerificationExcept(t)
    \/ \E t \in DOMAIN frames : RunVerificationAppend(t)
    \/ \E t \in DOMAIN frames : RunAllAppend(t)
    \/ GetSuiteSummary

SpecSuite == CoreInit /\ [][SuiteNext]_vars



----------------------------------------------------------------------------
(* Python floats of the contrast arithmetic: IEEE 754 binary64, round to    *)
(* nearest, ties to even.  A natural number of any size is a little-endian  *)
(* sequence of limbs in base 2^15; a float is [m, e] standing for           *)
(* m * 2^e, with m = <<>> for 0.0 and m of exactly 53 bits otherwise.       *)
(* All values of the contrast arithmetic are non-negative, normal and       *)
(* finite, so signs, subnormals, infinities and NaN are not represented.    *)

LimbBits  == 15
LimbBase  == 32768
Precision == 53

\* 2^k for 0 <= k < LimbBits
Pow2(k) == <<1, 2, 4, 8, 16, 32, 64, 128, 256, 512, 1024, 2048, 4096, 8192, 16384>>[k + 1]

RECURSIVE BigOf(_)
\* the limbs of a machine integer n >= 0
BigOf(n) == IF n = 0 THEN <<>> ELSE <<n % LimbBase>> \o BigOf(n \div LimbBase)

RECURSIVE BigTrim(_)
BigTrim(a) ==
    IF a = <<>> THEN <<>>
    ELSE IF a[Len(a)] = 0 THEN BigTrim(SubSeq(a, 1, Len(a) - 1)) ELSE a

Limb(a, i) == IF i <= Len(a) THEN a[i] ELSE 0

RECURSIVE BigAddFrom(_, _, _, _)
BigAddFrom(a, b, i, carry) ==
    IF i > Len(a) /\ i > Len(b)
    THEN (IF carry = 0 THEN <<>> ELSE <<carry>>)
    ELSE LET s == Limb(a, i) + Limb(b, i) + carry
         IN  <<s % LimbBase>> \o BigAddFrom(a, b, i + 1, s \div LimbBase)

BigAdd(a, b) == BigAddFrom(a, b, 1, 0)

RECURSIVE BigSubFrom(_, _, _, _)
\* a - b for a >= b
BigSubFrom(a, b, i, borrow) ==
    IF i > Len(a) THEN <<>>
    ELSE LET d == Limb(a, i) - Limb(b, i) - borrow
         IN  IF d < 0
             THEN <<d + LimbBase>> \o BigSubFrom(a, b, i + 1, 1)
             ELSE <<d>> \o BigSubFrom(a, b, i + 1, 0)

BigSub(a, b) == BigTrim(BigSubFrom(a, b, 1, 0))

RECURSIVE BigCmpFrom(_, _, _)
\* -1, 0, 1 as a < b, a = b, a > b, comparing limbs i, i - 1, ..., 1 of equally long a, b
BigCmpFrom(a, b, i) ==
    IF i = 0 THEN 0
    ELSE IF a[i] < b[i] THEN -1
    ELSE IF a[i] > b[i] THEN 1
    ELSE BigCmpFrom(a, b, i - 1)

BigCmp(a, b) ==
    IF Len(a) < Len(b) THEN -1
    ELSE IF Len(a) > Len(b) THEN 1
    ELSE BigCmpFrom(a, b, Len(a))

RECURSIVE BigMulSmallFrom(_, _, _, _)
\* a * k for 0 <= k < LimbBase
BigMulSmallFrom(a, k, i, carry) ==
    IF i > Len(a) THEN (IF carry = 0 THEN <<>> ELSE <<carry>>)
    ELSE LET p == a[i] * k + carry
         IN  <<p % LimbBase>> \o BigMulSmallFrom(a, k, i + 1, p \div LimbBase)

BigMulSmall(a, k) == BigTrim(BigMulSmallFrom(a, k, 1, 0))

\* a * LimbBase^n
BigShiftLimbs(a, n) == IF a = <<>> THEN <<>> ELSE [i \in 1..n |-> 0] \o a

RECURSIVE BigMulFrom(_, _, _)
BigMulFrom(a, b, j) ==
    IF j > Len(b) THEN <<>>
    ELSE BigAdd(BigShiftLimbs(BigMulSmall(a, b[j]), j - 1), BigMulFrom(a, b, j + 1))

BigMul(a, b) == BigTrim(BigMulFrom(a, b, 1))

\* a * 2^s
BigShl(a, s) == BigShiftLimbs(BigMulSmall(a, Pow2(s % LimbBits)), s \div LimbBits)

RECURSIVE BigDivSmallFrom(_, _, _, _)
\* the limbs i, i - 1, ..., 1 of a \div k (most significant first), 0 < k < LimbBase
BigDivSmallFrom(a, k, i, rem) ==
    IF i = 0 THEN <<>>
    ELSE LET cur == rem * LimbBase + a[i]
         IN  BigDivSmallFrom(a, k, i - 1, cur % k) \o <<cur \div k>>

\* a \div 2^s
BigShr(a, s) ==
    LET drop == s \div LimbBits
        rest == IF drop >= Len(a) THEN <<>> ELSE SubSeq(a, drop + 1, Len(a))
    IN  BigTrim(BigDivSmallFrom(rest, Pow2(s % LimbBits), Len(rest), 0))

RECURSIVE SmallBitLength(_)
SmallBitLength(n) == IF n = 0 THEN 0 ELSE 1 + SmallBitLength(n \div 2)

\* the number of bits of a (0 for zero)
BigBitLength(a) ==
    IF a = <<>> THEN 0 ELSE LimbBits * (Len(a) - 1) + SmallBitLength(a[Len(a)])

BigIsOdd(a) == a # <<>> /\ a[1] % 2 = 1

FloatZero == [m |-> <<>>, e |-> 0]

\* m1 * 2^e with m1 of 53 bits, or of 54 when rounding up carried
Renormalised(m1, e) ==
    IF BigBitLength(m1) > Precision
    THEN [m |-> BigShr(m1, 1), e |-> e + 1]
    ELSE [m |-> m1, e |-> e]

\* keep * 2^e rounded: c compares the bits dropped with half a unit of keep
RoundUp(keep, e, c, sticky) ==
    IF c = 1 \/ (c = 0 /\ (sticky \/ BigIsOdd(keep)))
    THEN Renormalised(BigAdd(keep, <<1>>), e)
    ELSE [m |-> keep, e |-> e]

\* keep = n \div 2^k, the 53 leading bits of n
RoundKept(n, e, sticky, k, keep) ==
    RoundUp(keep, e + k, BigCmp(BigSub(n, BigShl(keep, k)), BigShl(<<1>>, k - 1)), sticky)

\* len = the number of bits of n
RoundBits(n, e, sticky, len) ==
    IF len = 0 THEN FloatZero
    ELSE IF len <= Precision
    THEN [m |-> BigShl(n, Precision - len), e |-> e - (Precision - len)]
    ELSE RoundKept(n, e, sticky, len - Precision, BigShr(n, len - Precision))

\* the float nearest to n * 2^e (ties to even); sticky says that the exact
\* value is a little more than n * 2^e, by less than 2^e
RoundToFloat(n, e, sticky) == RoundBits(n, e, sticky, BigBitLength(n))

\* float(n) of an integer n >= 0
FloatOfInt(n) == RoundToFloat(BigOf(n), 0, FALSE)

Min2(a, b) == IF a < b THEN a ELSE b

\* x + y
FloatAdd(x, y) ==
    IF x.m = <<>> THEN y
    ELSE IF y.m = <<>> THEN x
    ELSE LET e == Min2(x.e, y.e)
         IN  RoundToFloat(BigAdd(BigShl(x.m, x.e - e), BigShl(y.m, y.e - e)), e, FALSE)

\* x * y
FloatMul(x, y) ==
    IF x.m = <<>> \/ y.m = <<>> THEN FloatZero
    ELSE RoundToFloat(BigMul(x.m, y.m), x.e + y.e, FALSE)

QuotientLimbs == 4
StageSize     == 32

\* d * q > r
Exceeds(d, q, r) == BigCmp(BigMulSmall(d, q), r) > 0

\* the k in 0..31 with d * (base + k * step) <= r < d * (base + (k + 1) * step)
StageDigit(d, r, base, step) ==
    CHOOSE k \in 0..(StageSize - 1) :
        ~Exceeds(d, base + k * step, r) /\ Exceeds(d, base + (k + 1) * step, r)

RECURSIVE QuotientLimbFrom(_, _, _, _)
QuotientLimbFrom(d, r, base, step) ==
    IF step = 0 THEN base
    ELSE QuotientLimbFrom(d, r, base + StageDigit(d, r, base, step) * step, step \div StageSize)

\* the limb q with d * q <= r < d * (q + 1), for r < d * LimbBase: its three
\* groups of five bits are found one after the other
QuotientLimb(d, r) == QuotientLimbFrom(d, r, 0, StageSize * StageSize)

RECURSIVE LongDivide(_, _, _)
RECURSIVE LongDivideLimb(_, _, _, _)

\* long division in base 2^15 of rem / d (rem < d), n limbs more: the
\* quotient's limbs, most significant first, followed by the final remainder
LongDivide(rem, d, n) ==
    IF n = 0 THEN <<rem>>
    ELSE LongDivideLimb(BigShiftLimbs(rem, 1), d, n, QuotientLimb(d, BigShiftLimbs(rem, 1)))

\* q = r \div d
LongDivideLimb(r, d, n, q) == <<q>> \o LongDivide(BigSub(r, BigMulSmall(d, q)), d, n - 1)

Reverse(s) == [i \in 1..Len(s) |-> s[Len(s) + 1 - i]]

\* the float of the quotient whose limbs and remainder are ds
QuotientFloat(ds, first, e) ==
    RoundToFloat(BigTrim(Reverse(SubSeq(ds, 1, QuotientLimbs)) \o <<IF first THEN 1 ELSE 0>>),
                 e, ds[QuotientLimbs + 1] # <<>>)

\* first: the significand of x is not less than that of y
DivideFrom(x, y, first) ==
    QuotientFloat(LongDivide(IF first THEN BigSub(x.m, y.m) ELSE x.m, y.m, QuotientLimbs),
                  first, x.e - y.e - QuotientLimbs * LimbBits)

\* x / y for y # 0: the quotient of the significands to 60 fractional bits,
\* the rest of the division kept as the sticky bit
FloatDiv(x, y) ==
    IF x.m = <<>> THEN FloatZero ELSE DivideFrom(x, y, BigCmp(x.m, y.m) >= 0)

\* -1, 0, 1 as x < y, x = y, x > y
FloatCmp(x, y) ==
    IF x.m = <<>> /\ y.m = <<>> THEN 0
    ELSE IF x.m = <<>> THEN -1
    ELSE IF y.m = <<>> THEN 1
    ELSE IF x.e # y.e THEN (IF x.e < y.e THEN -1 ELSE 1)
    ELSE BigCmp(x.m, y.m)

FloatLeq(x, y) == FloatCmp(x, y) <= 0
FloatGeq(x, y) == FloatCmp(x, y) >= 0

\* the float of the decimal literal n / 10^k, written with its digits n and
\* its power of ten d = 10^k: the float nearest to the quotient
FloatLit(n, d) == FloatDiv(FloatOfInt(n), FloatOfInt(d))

\* max(a, b) and min(a, b) of Python: the first argument unless the second is
\* strictly greater (smaller)
FloatMax(a, b) == IF FloatCmp(b, a) > 0 THEN b ELSE a
FloatMin(a, b) == IF FloatCmp(b, a) < 0 THEN b ELSE a

----------------------------------------------------------------------------
(* Contrast (utils.py ColorUtils, accessibility.py ContrastChecker).        *)
(* x ** 2.4 is computed by the C library and is not followed: for x = 1.0   *)
(* it is 1.0, and for any other x it is one of x * x and x * x * x, between *)
(* which the power lies; which of the two is fixed for a whole call by the  *)
(* pow field of the input, so that equal arguments give equal powers.       *)

FloatOne == FloatOfInt(1)

Float255     == FloatOfInt(255)
GammaDivisor == FloatLit(1292, 100)
GammaCutoff  == FloatLit(3928, 100000)
GammaShift   == FloatLit(55, 1000)
GammaScale   == FloatLit(1055, 1000)
RedWeight    == FloatLit(2126, 10000)
GreenWeight  == FloatLit(7152, 10000)
BlueWeight   == FloatLit(722, 10000)

\* an offset of 0.5 in place of 0.05
LuminanceOffsetOfHalf == FloatLit(5, 10)

\* the 0.05 added to both luminances
LuminanceOffset == FloatLit(5, 100)

\* x ** 2.4
Power24(x, pow) ==
    IF x = FloatOne THEN FloatOne
    ELSE IF pow = "square" THEN FloatMul(x, x)
    ELSE FloatMul(FloatMul(x, x), x)

\* c = c / 12.92 if c <= 0.03928 else ((c + 0.055) / 1.055) ** 2.4
GammaCorrect(c, pow) ==
    IF FloatLeq(c, GammaCutoff)
    THEN FloatDiv(c, GammaDivisor)
    ELSE Power24(FloatDiv(FloatAdd(c, GammaShift), GammaScale), pow)

\* 0.2126 * r + 0.7152 * g + 0.0722 * b of the corrected channels <<r, g, b>>
WeightedSum(linear) ==
    FloatAdd(FloatAdd(FloatMul(RedWeight, linear[1]), FloatMul(GreenWeight, linear[2])),
             FloatMul(BlueWeight, linear[3]))

\* the body shared by ColorUtils.calculate_luminance and get_luminance: each
\* channel is divided by 255.0 and gamma-corrected, then the weighted sum
LuminanceBody(rgb, pow) ==
    WeightedSum([i \in 1..3 |-> GammaCorrect(FloatDiv(FloatOfInt(rgb[i]), Float255), pow)])

\* ColorUtils.calculate_luminance
calculate_luminance(rgb, pow) == LuminanceBody(rgb, pow)

\* get_luminance, local to ContrastChecker._calculate_contrast_ratio
get_luminance(rgb, pow) == LuminanceBody(rgb, pow)

\* a ratio that takes the first colour for the lighter one
RatioOfLuminancesInOrder(lum1, lum2) ==
    FloatDiv(FloatAdd(lum1, LuminanceOffset), FloatAdd(lum2, LuminanceOffset))

\* (lighter + 0.05) / (darker + 0.05)
RatioOfLuminances(lum1, lum2) ==
    LET lighter == FloatMax(lum1, lum2)
        darker  == FloatMin(lum1, lum2)
    IN  FloatDiv(FloatAdd(lighter, LuminanceOffset), FloatAdd(darker, LuminanceOffset))

\* the ratio of <<lum1, lum2>>
RatioOfPair(lum) == RatioOfLuminances(lum[1], lum[2])

\* ColorUtils.calculate_contrast_ratio
calculate_contrast_ratio(color1, color2, pow) ==
    RatioOfPair([i \in 1..2 |-> calculate_luminance(<<color1, color2>>[i], pow)])

\* ContrastChecker._calculate_contrast_ratio
_calculate_contrast_ratio(color1, color2, pow) ==
    RatioOfPair([i \in 1..2 |-> get_luminance(<<color1, color2>>[i], pow)])

Float3_0 == FloatOfInt(3)
Float4_5 == FloatLit(45, 10)

\* a selection that reads the two thresholds the wrong way round
RequiredRatioSwapped(is_large_text, large_text_ratio, min_contrast_ratio) ==
    IF is_large_text THEN min_contrast_ratio ELSE large_text_ratio

\* required_ratio = large if is_large_text else normal
RequiredRatio(is_large_text, large_text_ratio, min_contrast_ratio) ==
    IF is_large_text THEN large_text_ratio ELSE min_contrast_ratio

\* return contrast_ratio >= required_ratio, contrast_ratio
AccessibleTuple(contrast_ratio, required_ratio) ==
    [kind |-> "tuple", ok |-> FloatGeq(contrast_ratio, required_ratio), ratio |-> contrast_ratio]

\* ColorUtils.is_color_accessible: (contrast_ratio >= required_ratio, contrast_ratio)
is_color_accessible(foreground, background, is_large_text, pow) ==
    AccessibleTuple(calculate_contrast_ratio(foreground, background, pow),
                    RequiredRatio(is_large_text, Float3_0, Float4_5))

EndsWith(s, suffix) ==
    /\ Len(s) >= Len(suffix)
    /\ SubSeq(s, Len(s) - Len(suffix) + 1, Len(s)) = suffix

RECURSIVE Pow10(_)
Pow10(k) == IF k = 0 THEN 1 ELSE 10 * Pow10(k - 1)

\* float(s) of a plain decimal numeral (digits, at most one point, a digit at
\* least); anything else is a ValueError
ParseFloat(s) ==
    LET points == {i \in DOMAIN s : s[i] = "."}
        digits == SelectSeq(s, LAMBDA c : c \in Digits)
    IN  IF \/ \E i \in DOMAIN s : s[i] \notin Digits \cup {"."}
           \/ Cardinality(points) > 1
           \/ digits = <<>>
        THEN [kind |-> "raise", error |-> "ValueError"]
        ELSE LET frac == IF points = {} THEN 0
                         ELSE Len(s) - (CHOOSE i \in points : TRUE)
             IN  [kind |-> "float", v |-> FloatLit(ParseInt(digits, 10), Pow10(frac))]

Float16   == FloatOfInt(16)
Float0_75 == FloatLit(75, 100)

\* the points of font_size_str, number being float(font_size_str[:-2])
FontSizeOf(font_size_str, number) ==
    IF font_size_str = <<>> THEN [kind |-> "float", v |-> Float16]
    ELSE IF EndsWith(font_size_str, <<"p", "x">>)
    THEN (IF number.kind = "raise" THEN number
          ELSE [kind |-> "float", v |-> FloatMul(number.v, Float0_75)])
    ELSE IF EndsWith(font_size_str, <<"p", "t">>)
    THEN number
    ELSE IF EndsWith(font_size_str, <<"e", "m">>)
    THEN (IF number.kind = "raise" THEN number
          ELSE [kind |-> "float", v |-> FloatMul(FloatMul(number.v, Float16), Float0_75)])
    ELSE [kind |-> "float", v |-> Float16]

\* ContrastChecker._parse_font_size: points, or the ValueError of float()
_parse_font_size(font_size_str) ==
    FontSizeOf(font_size_str, ParseFloat(SubSeq(font_size_str, 1, Len(font_size_str) - 2)))

BoldWeights == {"bold", "700", "800", "900"}

\* font_size >= 18 or (font_size >= 14 and font_weight in [...])
IsLargeText(font_size, font_weight) ==
    \/ FloatGeq(font_size, FloatOfInt(18))
    \/ FloatGeq(font_size, FloatOfInt(14)) /\ font_weight \in BoldWeights

ContrastEntry(passed, message, metrics) ==
    [type |-> "contrast_ratio", passed |-> passed, message |-> message, metrics |-> metrics]

\* a parse that falls back on black when the style is not a colour
StyleColorOrBlack(style) ==
    IF _parse_color(style) = None THEN ParsedColor(0, 0, 0) ELSE _parse_color(style)

\* text_color = self._parse_color(styles['color']), and the same of backgroundColor
StyleColor(style) == _parse_color(style)

\* if text_color and background_color
BothParsed(text_color, background_color) ==
    text_color # None /\ background_color # None

ElementResult(element_spec, passed, entry) ==
    [element |-> element_spec.selector, passed |-> passed, checks |-> <<entry>>]

\* the check entry of a ratio against the ratio required
CompareRatio(element_spec, contrast_ratio, required_ratio, is_large_text) ==
    LET metrics == [contrast_ratio |-> contrast_ratio,
                    required_ratio |-> required_ratio,
                    is_large_text  |-> is_large_text]
    IN  IF FloatGeq(contrast_ratio, required_ratio)
        THEN ElementResult(element_spec, TRUE, ContrastEntry(TRUE, "meets_requirement", metrics))
        ELSE ElementResult(element_spec, FALSE, ContrastEntry(FALSE, "below_requirement", metrics))

CheckRatio(self, element_spec, contrast_ratio, is_large_text) ==
    CompareRatio(element_spec, contrast_ratio,
                 RequiredRatio(is_large_text, self.large_text_ratio, self.min_contrast_ratio),
                 is_large_text)

\* font_size: the outcome of _parse_font_size, whose ValueError the except
\* clause of _check_element_contrast turns into a failed entry
CheckFont(self, element_spec, contrast_ratio, font_size) ==
    IF font_size.kind = "raise"
    THEN ElementResult(element_spec, FALSE, ContrastEntry(FALSE, "error_checking_contrast", None))
    ELSE CheckRatio(self, element_spec, contrast_ratio,
                    IsLargeText(font_size.v, element_spec.styles.fontWeight))

CheckParsed(self, element_spec, pow, text_color, background_color) ==
    IF BothParsed(text_color, background_color)
    THEN CheckFont(self, element_spec,
                   _calculate_contrast_ratio(text_color.rgb, background_color.rgb, pow),
                   _parse_font_size(element_spec.styles.fontSize))
    ELSE ElementResult(element_spec, FALSE,
                       ContrastEntry(FALSE, "could_not_determine_color", None))

\* ContrastChecker._check_element_contrast once the element is found
CheckElementContrast(self, element_spec, pow) ==
    CheckParsed(self, element_spec, pow,
                StyleColor(element_spec.styles.color),
                StyleColor(element_spec.styles.backgroundColor))

\* ContrastChecker._check_element_contrast, or the entry verify makes of the
\* exception of find_element
ElementContrastResult(self, element_spec, pow) ==
    IF ~element_spec.found
    THEN ElementResult(element_spec, FALSE,
                       [type |-> "error", passed |-> FALSE,
                        message |-> "NoSuchElementException", metrics |-> None])
    ELSE CheckElementContrast(self, element_spec, pow)

\* an all_passed that is kept from the call before
AllPassedOfLastCall(self) ==
    self.results = <<>> \/ self.results[Len(self.results)].status = "pass"

\* all_passed = True, local to each call of verify
InitialAllPassed(self) == TRUE

\* the verdict of verify once every element has its entry in contrast_results
ContrastVerdict(self, contrast_results) ==
    LET all_passed == /\ InitialAllPassed(self)
                      /\ \A i \in DOMAIN contrast_results : contrast_results[i].passed
        npassed    == Cardinality({i \in DOMAIN contrast_results : contrast_results[i].passed})
    IN  VerificationResult("ContrastChecker",
                           IF all_passed THEN "pass" ELSE "fail",
                           [passed |-> npassed, of |-> Len(contrast_results)],
                           [kind |-> "details", contrast_results |-> contrast_results])

\* a loop that ends with the first element whose check raises
ContrastResultsUntilError(self, elements_to_check, pow) ==
    LET raising == {i \in DOMAIN elements_to_check : ~elements_to_check[i].found}
        last    == IF raising = {} THEN Len(elements_to_check) ELSE SetMin(raising)
    IN  [i \in 1..last |-> ElementContrastResult(self, elements_to_check[i], pow)]

\* the entries of the elements, in order
ContrastResults(self, elements_to_check, pow) ==
    [i \in DOMAIN elements_to_check |-> ElementContrastResult(self, elements_to_check[i], pow)]

\* ContrastChecker.verify
ContrastVerify(self, in) ==
    ContrastVerdict(self,
        ContrastResults(self, IF in.elements = <<>> THEN in.text_elements ELSE in.elements,
                        in.pow))

\* The inputs.
PowChoices == {"square", "cube"}

Colors ==
    {<<0, 0, 0>>, <<255, 255, 255>>, <<255, 0, 0>>, <<0, 0, 255>>,
     <<10, 10, 10>>, <<128, 128, 128>>}

RECURSIVE DecimalString(_)
\* str(n)
DecimalString(n) ==
    IF n < 10 THEN <<CHOOSE c \in Digits : DigitValue(c) = n>>
    ELSE DecimalString(n \div 10) \o <<CHOOSE c \in Digits : DigitValue(c) = n % 10>>

\* the computed style of a colour: "rgb(r, g, b)"
CssOf(rgb) ==
    RgbString(DecimalString(rgb[1]), DecimalString(rgb[2]), DecimalString(rgb[3]), <<",", " ">>)

\* the computed style of a transparent background, a colour keyword, nothing
UnparsedStyles == {Transparent, <<"r", "e", "d">>, <<>>}

StyleColors ==
    {CssOf(c) : c \in Colors \ {<<10, 10, 10>>}}
    \cup {RgbaString(<<"0">>, <<"0">>, <<"0">>, <<"0">>, <<",", " ">>)}
    \cup UnparsedStyles

Fonts ==
    {[fontSize |-> <<"1", "6", "p", "x">>, fontWeight |-> "400"],
     [fontSize |-> <<"2", "4", "p", "x">>, fontWeight |-> "400"],
     [fontSize |-> <<"1", "8", ".", "6", "6", "6", "7", "p", "x">>, fontWeight |-> "700"],
     [fontSize |-> <<"1", "8", ".", "6", "6", "p", "x">>, fontWeight |-> "bold"],
     [fontSize |-> <<"1", "4", "p", "t">>, fontWeight |-> "400"],
     [fontSize |-> <<"1", ".", "5", "e", "m">>, fontWeight |-> "normal"],
     [fontSize |-> <<>>, fontWeight |-> "900"]}

ElementSpec(selector, found, color, backgroundColor, font) ==
    [selector |-> selector, found |-> found,
     styles |-> [color |-> color, backgroundColor |-> backgroundColor,
                 fontSize |-> font.fontSize, fontWeight |-> font.fontWeight]]

\* an element with black text on white that passes every threshold
PlainElement ==
    ElementSpec("p", TRUE, CssOf(<<0, 0, 0>>), CssOf(<<255, 255, 255>>),
                [fontSize |-> <<"1", "6", "p", "x">>, fontWeight |-> "400"])

MissingElement == [PlainElement EXCEPT !.selector = "#gone", !.found = FALSE]

\* a ContrastChecker: its two thresholds and its self.results
ContrastCheckerSelf(min_contrast_ratio, large_text_ratio) ==
    [cls |-> "ContrastChecker", min_contrast_ratio |-> min_contrast_ratio,
     large_text_ratio |-> large_text_ratio, results |-> <<>>]

CheckerThresholds ==
    {ContrastCheckerSelf(Float4_5, Float3_0), ContrastCheckerSelf(FloatOfInt(7), Float4_5)}

RatioInputs ==
    {[kind |-> "ratio", color1 |-> a, color2 |-> b, pow |-> p] :
        a \in Colors, b \in Colors, p \in PowChoices}

AccessibleInputs ==
    {[kind |-> "accessible", foreground |-> a, background |-> b, is_large_text |-> l, pow |-> p] :
        a \in Colors, b \in {<<255, 255, 255>>, <<0, 0, 0>>}, l \in BOOLEAN, p \in PowChoices}

VerifyInputs ==
    {[kind |-> "verify", self |-> th,
      elements |-> first \o <<ElementSpec("h1", TRUE, fg, bg, font)>>,
      text_elements |-> <<>>, pow |-> "square"] :
        th \in CheckerThresholds, first \in {<<>>, <<PlainElement>>},
        fg \in StyleColors, bg \in StyleColors, font \in Fonts}
    \cup
    {[kind |-> "verify", self |-> th, elements |-> els, text_elements |-> page, pow |-> p] :
        th \in CheckerThresholds, p \in PowChoices,
        els \in {<<>>, <<MissingElement>>, <<MissingElement, PlainElement>>},
        page \in {<<>>, <<PlainElement>>}}

ContrastInit ==
    /\ con_in \in RatioInputs \cup AccessibleInputs \cup VerifyInputs
    /\ con_out = None
    /\ IdleBitmap /\ IdleColor /\ IdleAlign /\ IdleConfig /\ IdleCore /\ IdleRepeat /\ IdleExtra

\* a call of ColorUtils.calculate_contrast_ratio
CalculateContrastRatio ==
    /\ con_in.kind = "ratio" /\ con_out = None
    /\ con_out' = [kind |-> "float", by |-> "ColorUtils",
                   v |-> calculate_contrast_ratio(con_in.color1, con_in.color2, con_in.pow)]
    /\ UNCHANGED <<con_in, bitmapVars, colorVars, alignVars, configVars, coreVars, repeatVars, extraVars>>

\* a call of ContrastChecker._calculate_contrast_ratio
CheckerCalculateContrastRatio ==
    /\ con_in.kind = "ratio" /\ con_out = None
    /\ con_out' = [kind |-> "float", by |-> "ContrastChecker",
                   v |-> _calculate_contrast_ratio(con_in.color1, con_in.color2, con_in.pow)]
    /\ UNCHANGED <<con_in, bitmapVars, colorVars, alignVars, configVars, coreVars, repeatVars, extraVars>>

\* a call of ColorUtils.is_color_accessible
IsColorAccessible ==
    /\ con_in.kind = "accessible" /\ con_out = None
    /\ con_out' = is_color_accessible(con_in.foreground, con_in.background,
                                      con_in.is_large_text, con_in.pow)
    /\ UNCHANGED <<con_in, bitmapVars, colorVars, alignVars, configVars, coreVars, repeatVars, extraVars>>

\* a call of ContrastChecker.verify
ContrastCheckerVerify ==
    /\ con_in.kind = "verify" /\ con_out = None
    /\ con_out' = ContrastVerify(con_in.self, con_in)
    /\ UNCHANGED <<con_in, bitmapVars, colorVars, alignVars, configVars, coreVars, repeatVars, extraVars>>

ContrastNext ==
    \/ CalculateContrastRatio
    \/ CheckerCalculateContrastRatio
    \/ IsColorAccessible
    \/ ContrastCheckerVerify

SpecContrast == ContrastInit /\ [][ContrastNext]_vars

----------------------------------------------------------------------------
(* Repeated calls of run_verification on one analyzer (core.py, layout.py,  *)
(* accessibility.py, visual.py).  rep_self is the analyzer, with its        *)
(* self.results; rep_log lists the calls made so far, each with its         *)
(* arguments and the verdict returned.                                      *)

MaxCalls == 3

\* the arguments _check_alignment works on: the check and self.tolerance
CheckArgs(self, check) ==
    [kind |-> "call", elements |-> check.elements, type |-> check.type,
     columns |-> check.columns, tolerance |-> self.tolerance]

\* the entry of one check in AlignmentChecker.verify
AlignmentEntry(self, check) ==
    LET result == CheckAlignment(CheckArgs(self, check)) IN
    IF result.kind = "raise"
    THEN [kind |-> "error", elements |-> Len(check.elements), passed |-> FALSE,
          error |-> result.error]
    ELSE result

\* AlignmentChecker.verify
AlignmentVerify(self, in) ==
    IF in.alignment_checks = <<>>
    THEN VerificationResult("AlignmentChecker", "warning", "no_alignment_checks", None)
    ELSE LET alignment_results == [i \in DOMAIN in.alignment_checks |->
                                      AlignmentEntry(self, in.alignment_checks[i])]
             all_passed == /\ InitialAllPassed(self)
                           /\ \A i \in DOMAIN alignment_results : alignment_results[i].passed
             npassed    == Cardinality({i \in DOMAIN alignment_results :
                                           alignment_results[i].passed})
         IN  VerificationResult("AlignmentChecker",
                                IF all_passed THEN "pass" ELSE "fail",
                                [passed |-> npassed, of |-> Len(alignment_results)],
                                [kind |-> "details", alignment_results |-> alignment_results])

\* self.verify(target, **kwargs) of the analyzer's class: the possible verdicts
AnalyzerVerify(self, args) ==
    CASE self.cls = "AlignmentChecker" -> {AlignmentVerify(self, args)}
      [] self.cls = "ContrastChecker"  -> {ContrastVerify(self, args)}
      [] self.cls = "ScreenshotComparator" ->
            {o.result : o \in ScreenshotVerify(
                [kind |-> "call", reference_path |-> args.reference_path,
                 screenshot |-> args.screenshot, target |-> args.target,
                 threshold |-> self.threshold, tolerance |-> self.tolerance])}

\* result.duration_ms = (time.time() - start_time) * 1000
WithDuration(result, duration_ms) ==
    [f \in DOMAIN result \cup {"duration_ms"} |->
        IF f = "duration_ms" THEN duration_ms ELSE result[f]]

Durations == {1, 2}

\* The analyzers and the arguments of the calls.
Analyzers ==
    {[cls |-> "AlignmentChecker", tolerance |-> DefaultAlignmentTolerance, results |-> <<>>],
     ContrastCheckerSelf(Float4_5, Float3_0),
     [cls |-> "ScreenshotComparator", threshold |-> DefaultThreshold,
      tolerance |-> DefaultTolerance, results |-> <<>>]}

AlignmentCheckOf(boxes, missing, type) ==
    [elements |-> [i \in DOMAIN boxes |-> [found |-> (i # missing), bounds |-> boxes[i]]],
     type |-> type, columns |-> None]

RowOfTwo == Layout(2, 2, 0, 0, 0, 0, 0)

AlignmentArgs ==
    {[alignment_checks |-> cs] :
        cs \in {<<>>,
                <<AlignmentCheckOf(RowOfTwo, 0, "vertical")>>,
                <<AlignmentCheckOf(RowOfTwo, 1, "horizontal"),
                  AlignmentCheckOf(RowOfTwo, 0, "horizontal")>>}}

ContrastArgs ==
    {[elements |-> els, text_elements |-> <<PlainElement>>, pow |-> "square"] :
        els \in {<<>>,
                 <<ElementSpec("h1", TRUE, CssOf(<<128, 128, 128>>), CssOf(<<255, 255, 255>>),
                               [fontSize |-> <<"1", "6", "p", "x">>, fontWeight |-> "400"])>>,
                 <<MissingElement, PlainElement>>}}

OnePixel(rgb) == Image("RGB", <<1, 1>>, <<rgb>>)

\* a reference and a screenshot of the same size, equal or not; a reference
\* file that is missing
ScreenshotArgs ==
    {[reference_path |-> a[1], screenshot |-> a[2], target |-> [kind |-> "driver"]] :
        a \in {<<OnePixel(<<0, 0, 0>>), OnePixel(<<0, 0, 0>>)>>,
               <<OnePixel(<<0, 0, 0>>), OnePixel(<<255, 255, 255>>)>>,
               <<[kind |-> "missing"], OnePixel(<<0, 0, 0>>)>>}}

ArgsOf(self) ==
    CASE self.cls = "AlignmentChecker"     -> AlignmentArgs
      [] self.cls = "ContrastChecker"      -> ContrastArgs
      [] self.cls = "ScreenshotComparator" -> ScreenshotArgs

RepeatInit ==
    /\ rep_self \in Analyzers
    /\ rep_log = <<>>
    /\ IdleBitmap /\ IdleColor /\ IdleAlign /\ IdleConfig /\ IdleCore /\ IdleContrast /\ IdleExtra

\* run_verification(target, **kwargs): the verdict of verify is given its
\* duration, appended to self.results and returned
RepeatRunVerification ==
    /\ Len(rep_log) < MaxCalls
    /\ \E args \in ArgsOf(rep_self), d \in Durations :
          \E verdict \in AnalyzerVerify(rep_self, args) :
             LET result == WithDuration(verdict, d) IN
             /\ rep_self' = [rep_self EXCEPT !.results = Append(@, result)]
             /\ rep_log' = Append(rep_log, [args |-> args, result |-> result])
    /\ UNCHANGED <<bitmapVars, colorVars, alignVars, configVars, coreVars, contrastVars, extraVars>>

\* clear_results()
RepeatClearResults ==
    /\ rep_self.results # <<>>
    /\ rep_self' = [rep_self EXCEPT !.results = <<>>]
    /\ UNCHANGED <<rep_log, bitmapVars, colorVars, alignVars, configVars, coreVars, contrastVars, extraVars>>

RepeatNext == RepeatRunVerification \/ RepeatClearResults

SpecRepeat == RepeatInit /\ [][RepeatNext]_vars



----------------------------------------------------------------------------
(* One call of verify of an analyzer that runs a list of checks             *)
(* (AlignmentChecker.verify, layout.py; ContrastChecker.verify,             *)
(* accessibility.py).  rep_self is the analyzer; rep_log holds the call     *)
(* once it is made: the list of checks given and the verdict returned.      *)

MaxChecks == 3

\* a row of three boxes, and one box
RowOfThree == Layout(3, 3, 0, 0, 0, 0, 0)
OneBox     == Layout(1, 1, 0, 0, 0, 0, 0)

\* the alignment checks a call is given: a row checked as a row (passes), the
\* row checked as a column (fails), a row of three whose second element is
\* not on the page (find_element raises), a single element (too few)
AlignmentCheckKinds ==
    {AlignmentCheckOf(RowOfTwo, 0, "horizontal"),
     AlignmentCheckOf(RowOfTwo, 0, "vertical"),
     AlignmentCheckOf(RowOfThree, 2, "horizontal"),
     AlignmentCheckOf(OneBox, 0, "horizontal")}

\* the elements a call is given: black on white (passes), grey on white
\* (fails), an element that is not on the page (find_element raises), an
\* element whose background is not a colour (fails without a ratio)
GreyElement ==
    ElementSpec("h1", TRUE, CssOf(<<128, 128, 128>>), CssOf(<<255, 255, 255>>),
                [fontSize |-> <<"1", "6", "p", "x">>, fontWeight |-> "400"])

ClearElement ==
    ElementSpec("span", TRUE, CssOf(<<0, 0, 0>>), Transparent,
                [fontSize |-> <<"1", "6", "p", "x">>, fontWeight |-> "400"])

ContrastCheckKinds == {PlainElement, GreyElement, MissingElement, ClearElement}

\* the lists of at most MaxChecks checks of a set of checks
ListsOf(S) == UNION {[1..n -> S] : n \in 0..MaxChecks}

ChecksInit ==
    /\ rep_self \in {a \in Analyzers : a.cls \in {"AlignmentChecker", "ContrastChecker"}}
    /\ rep_log = <<>>
    /\ IdleBitmap /\ IdleColor /\ IdleAlign /\ IdleConfig /\ IdleCore /\ IdleContrast /\ IdleExtra

\* AlignmentChecker.verify(driver, alignment_checks=checks)
AlignmentCheckerVerify ==
    /\ rep_self.cls = "AlignmentChecker" /\ rep_log = <<>>
    /\ \E checks \in ListsOf(AlignmentCheckKinds) :
          rep_log' = <<[args   |-> [alignment_checks |-> checks],
                        result |-> AlignmentVerify(rep_self, [alignment_checks |-> checks])]>>
    /\ UNCHANGED <<rep_self, bitmapVars, colorVars, alignVars, configVars, coreVars,
                   contrastVars, extraVars>>

\* ContrastChecker.verify(driver, elements=elements), on a page whose text
\* elements are page
ElementsVerify ==
    /\ rep_self.cls = "ContrastChecker" /\ rep_log = <<>>
    /\ \E elements \in ListsOf(ContrastCheckKinds), page \in {<<>>, <<PlainElement, GreyElement>>} :
          LET args == [elements |-> elements, text_elements |-> page, pow |-> "square"]
          IN  rep_log' = <<[args |-> args, result |-> ContrastVerify(rep_self, args)]>>
    /\ UNCHANGED <<rep_self, bitmapVars, colorVars, alignVars, configVars, coreVars,
                   contrastVars, extraVars>>

ChecksNext == AlignmentCheckerVerify \/ ElementsVerify

SpecChecks == ChecksInit /\ [][ChecksNext]_vars

----------------------------------------------------------------------------
(* ViewportTester's overlap check (responsive.py).  ovl_in is what the      *)
(* caller gives: two boxes, or the elements of an overlap check; ovl_out    *)
(* is what the call returned.                                               *)

\* an overlap test that counts boxes sharing an edge as overlapping
ElementsOverlapOrTouch(bounds1, bounds2) ==
    ~ \/ bounds1.x + bounds1.width < bounds2.x
      \/ bounds2.x + bounds2.width < bounds1.x
      \/ bounds1.y + bounds1.height < bounds2.y
      \/ bounds2.y + bounds2.height < bounds1.y

\* ViewportTester._elements_overlap
_elements_overlap(bounds1, bounds2) ==
    ~ \/ bounds1.x + bounds1.width <= bounds2.x
      \/ bounds2.x + bounds2.width <= bounds1.x
      \/ bounds1.y + bounds1.height <= bounds2.y
      \/ bounds2.y + bounds2.height <= bounds1.y

\* the elements of the list that find_element finds, in order (the others
\* are skipped by the bare except)
RECURSIVE FoundBounds(_)
FoundBounds(elements_to_check) ==
    IF elements_to_check = <<>> THEN <<>>
    ELSE (IF Head(elements_to_check).found
          THEN <<[selector |-> Head(elements_to_check).selector,
                  bounds   |-> Head(elements_to_check).bounds]>>
          ELSE <<>>) \o FoundBounds(Tail(elements_to_check))

\* the pairs (i, j), i < j, in the order the two loops visit them
RECURSIVE PairsFrom(_, _, _)
PairsFrom(i, j, n) ==
    IF i > n THEN <<>>
    ELSE IF j > n THEN PairsFrom(i + 1, i + 2, n)
    ELSE <<<<i, j>>>> \o PairsFrom(i, j + 1, n)

\* the overlaps list of the found elements
RECURSIVE OverlapsAmong(_, _)
OverlapsAmong(element_bounds, pairs) ==
    IF pairs = <<>> THEN <<>>
    ELSE (IF _elements_overlap(element_bounds[Head(pairs)[1]].bounds,
                               element_bounds[Head(pairs)[2]].bounds)
          THEN <<[element1 |-> element_bounds[Head(pairs)[1]].selector,
                  element2 |-> element_bounds[Head(pairs)[2]].selector]>>
          ELSE <<>>) \o OverlapsAmong(element_bounds, Tail(pairs))

OverlapsResult(overlaps) ==
    [kind |-> "dict", type |-> "element_overlaps", passed |-> (overlaps = <<>>),
     count |-> Len(overlaps), overlaps |-> overlaps]

\* ViewportTester._check_element_overlaps
_check_element_overlaps(elements_to_check) ==
    OverlapsResult(OverlapsAmong(FoundBounds(elements_to_check),
                                 PairsFrom(1, 2, Len(FoundBounds(elements_to_check)))))

\* The inputs: boxes on a grid of 10px, of extent 0, 10 or 15px each way.
MaxGrid == 2

Origins == {10 * k : k \in 0..MaxGrid}
Extents == {0, 10, 15}

OverlapBoxes == {Box(x, y, w, h) : x \in Origins, y \in Origins, w \in Extents, h \in Extents}

\* the elements of an overlap check: a, b, c and d, of which b overlaps a,
\* c touches a and d is apart; any one of them may be missing from the page
PageBoxes == <<Box(0, 0, 15, 15), Box(10, 10, 15, 15), Box(15, 0, 10, 10), Box(40, 40, 10, 10)>>

PageElements(missing) ==
    [i \in 1..4 |-> [selector |-> <<"a", "b", "c", "d">>[i], found |-> (i # missing),
                     bounds |-> PageBoxes[i]]]

OverlapInit ==
    /\ \/ \E b1 \in OverlapBoxes, b2 \in OverlapBoxes :
             ovl_in = [kind |-> "pair", bounds1 |-> b1, bounds2 |-> b2]
       \/ \E missing \in 0..4, first \in 1..4, last \in 1..4 :
             ovl_in = [kind |-> "elements",
                       elements_to_check |-> SubSeq(PageElements(missing), first, last)]
    /\ ovl_out = None
    /\ IdleBitmap /\ IdleColor /\ IdleAlign /\ IdleConfig /\ IdleCore /\ IdleContrast
    /\ IdleRepeat /\ IdleBrowser /\ IdleComposite

\* _elements_overlap(bounds1, bounds2) and _elements_overlap(bounds2, bounds1)
ElementsOverlap ==
    /\ ovl_in.kind = "pair" /\ ovl_out = None
    /\ ovl_out' = [kind |-> "bool",
                   forward  |-> _elements_overlap(ovl_in.bounds1, ovl_in.bounds2),
                   backward |-> _elements_overlap(ovl_in.bounds2, ovl_in.bounds1)]
    /\ UNCHANGED <<ovl_in, bitmapVars, colorVars, alignVars, configVars, coreVars,
                   contrastVars, repeatVars, browserVars, compositeVars>>

\* _check_element_overlaps(driver, elements_to_check)
CheckElementOverlaps ==
    /\ ovl_in.kind = "elements" /\ ovl_out = None
    /\ ovl_out' = _check_element_overlaps(ovl_in.elements_to_check)
    /\ UNCHANGED <<ovl_in, bitmapVars, colorVars, alignVars, configVars, coreVars,
                   contrastVars, repeatVars, browserVars, compositeVars>>

OverlapNext == ElementsOverlap \/ CheckElementOverlaps

SpecOverlap == OverlapInit /\ [][OverlapNext]_vars

----------------------------------------------------------------------------
(* BrowserManager (utils.py).  A driver is named by its index in            *)
(* bm_created, which records whether it is still open or has been quit.     *)
(* webdriver.Chrome(...) and set_window_size may fail: create_driver then   *)
(* raises.                                                                  *)

MaxDrivers == 3
MaxDepth   == 2

BrowserInit ==
    /\ bm_driver = None
    /\ bm_created = <<>>
    /\ bm_depth = 0
    /\ bm_out = None
    /\ IdleBitmap /\ IdleColor /\ IdleAlign /\ IdleConfig /\ IdleCore /\ IdleContrast
    /\ IdleRepeat /\ IdleResponsive /\ IdleComposite

DriverRef(d) == [kind |-> "driver", id |-> d]

\* the outcomes of create_driver, lines 42-48: the constructor fails and
\* nothing is created; the driver is created and assigned but sizing its
\* window fails; the driver is created, assigned and returned
CreateOutcomes == {"no_driver", "no_window", "created"}

\* the next state of (self.driver, the drivers created) after create_driver
\* with outcome o
DriverAfterCreate(o) == IF o = "no_driver" THEN bm_driver ELSE DriverRef(Len(bm_created) + 1)
CreatedAfterCreate(o) == IF o = "no_driver" THEN bm_created ELSE Append(bm_created, "open")

\* what the caller of create_driver gets
CreateReturn(o) ==
    IF o = "created" THEN DriverRef(Len(bm_created) + 1) ELSE [kind |-> "raise"]

CanCreate(o) == o = "no_driver" \/ Len(bm_created) < MaxDrivers

\* BrowserManager.create_driver
CreateDriver ==
    \E o \in CreateOutcomes :
       /\ CanCreate(o)
       /\ bm_driver' = DriverAfterCreate(o)
       /\ bm_created' = CreatedAfterCreate(o)
       /\ bm_out' = [call |-> "create_driver", held |-> bm_driver, value |-> CreateReturn(o)]
       /\ UNCHANGED <<bm_depth, bitmapVars, colorVars, alignVars, configVars, coreVars,
                      contrastVars, repeatVars, responsiveVars, compositeVars>>

\* BrowserManager.get_driver: if self.driver is None, create_driver()
GetDriver ==
    /\ IF bm_driver = None
       THEN \E o \in CreateOutcomes :
               /\ CanCreate(o)
               /\ bm_driver' = DriverAfterCreate(o)
               /\ bm_created' = CreatedAfterCreate(o)
               /\ bm_out' = [call |-> "get_driver", held |-> bm_driver,
                             value |-> CreateReturn(o)]
       ELSE /\ bm_out' = [call |-> "get_driver", held |-> bm_driver, value |-> bm_driver]
            /\ UNCHANGED <<bm_driver, bm_created>>
    /\ UNCHANGED <<bm_depth, bitmapVars, colorVars, alignVars, configVars, coreVars,
                   contrastVars, repeatVars, responsiveVars, compositeVars>>

\* the drivers created once the driver held (if any) has been quit
CreatedAfterClose ==
    IF bm_driver = None THEN bm_created
    ELSE [bm_created EXCEPT ![bm_driver.id] = "quit"]

\* BrowserManager.close_driver: self.driver.quit(); self.driver = None
CloseDriver ==
    /\ bm_created' = CreatedAfterClose
    /\ bm_driver' = None
    /\ bm_out' = [call |-> "close_driver", held |-> bm_driver, value |-> None]
    /\ UNCHANGED <<bm_depth, bitmapVars, colorVars, alignVars, configVars, coreVars,
                   contrastVars, repeatVars, responsiveVars, compositeVars>>

\* BrowserManager.__enter__: return self.get_driver(); the with-block is
\* entered only if __enter__ returns
Enter ==
    /\ bm_depth < MaxDepth
    /\ IF bm_driver = None
       THEN \E o \in CreateOutcomes :
               /\ CanCreate(o)
               /\ bm_driver' = DriverAfterCreate(o)
               /\ bm_created' = CreatedAfterCreate(o)
               /\ bm_out' = [call |-> "enter", held |-> bm_driver, value |-> CreateReturn(o)]
               /\ bm_depth' = IF o = "created" THEN bm_depth + 1 ELSE bm_depth
       ELSE /\ bm_out' = [call |-> "enter", held |-> bm_driver, value |-> bm_driver]
            /\ bm_depth' = bm_depth + 1
            /\ UNCHANGED <<bm_driver, bm_created>>
    /\ UNCHANGED <<bitmapVars, colorVars, alignVars, configVars, coreVars,
                   contrastVars, repeatVars, responsiveVars, compositeVars>>

\* BrowserManager.__exit__: self.close_driver()
Exit ==
    /\ bm_depth > 0
    /\ bm_depth' = bm_depth - 1
    /\ bm_created' = CreatedAfterClose
    /\ bm_driver' = None
    /\ bm_out' = [call |-> "exit", held |-> bm_driver, value |-> None]
    /\ UNCHANGED <<bitmapVars, colorVars, alignVars, configVars, coreVars,
                   contrastVars, repeatVars, responsiveVars, compositeVars>>

BrowserNext == CreateDriver \/ GetDriver \/ CloseDriver \/ Enter \/ Exit

SpecBrowser == BrowserInit /\ [][BrowserNext]_vars

----------------------------------------------------------------------------
(* The composite verifiers (VisualVerifier, visual.py; LayoutVerifier,      *)
(* layout.py; AccessibilityVerifier, accessibility.py; ResponsiveVerifier,  *)
(* responsive.py).  Their verify methods are the same code over             *)
(* different sub-checkers.  comp_in holds the verifier's class, the checks  *)
(* asked (None: the default list) and, for each sub-checker, what its       *)
(* verify does on the target: the status of the result it returns, or that  *)
(* it raises.                                                               *)

MaxRequested == 3

CompositeClasses ==
    {"VisualVerifier", "LayoutVerifier", "AccessibilityVerifier", "ResponsiveVerifier"}

\* the checks verify recognises, in the order of the default list, and the
\* sub-checker each of them runs
RecognisedChecks(cls) ==
    CASE cls = "VisualVerifier"        -> <<"screenshot", "elements">>
      [] cls = "LayoutVerifier"        -> <<"position", "size", "alignment">>
      [] cls = "AccessibilityVerifier" -> <<"aria", "contrast", "keyboard">>
      [] cls = "ResponsiveVerifier"    -> <<"viewport", "breakpoints">>

SubChecker(check) ==
    CASE check = "screenshot"  -> "ScreenshotComparator"
      [] check = "elements"    -> "ElementDetector"
      [] check = "position"    -> "PositionChecker"
      [] check = "size"        -> "SizeChecker"
      [] check = "alignment"   -> "AlignmentChecker"
      [] check = "aria"        -> "ARIAChecker"
      [] check = "contrast"    -> "ContrastChecker"
      [] check = "keyboard"    -> "KeyboardNavigationChecker"
      [] check = "viewport"    -> "ViewportTester"
      [] check = "breakpoints" -> "BreakpointChecker"

\* checks = kwargs.get('checks', [...])
ChecksAsked(cls, checks) == IF Falsy(checks) THEN RecognisedChecks(cls) ELSE checks.v

\* the loop of verify over the checks: the results collected so far, or the
\* exception of a sub-checker, which verify does not catch
RECURSIVE RunChecks(_, _, _, _)
RunChecks(cls, checks, outcome, collected) ==
    IF checks = <<>> THEN [kind |-> "results", collected |-> collected]
    ELSE IF Head(checks) \notin Range(RecognisedChecks(cls))
    THEN RunChecks(cls, Tail(checks), outcome, collected)
    ELSE IF outcome[Head(checks)] = "raise"
    THEN [kind |-> "raise", by |-> SubChecker(Head(checks))]
    ELSE RunChecks(cls, Tail(checks), outcome,
                   Append(collected, [check_name |-> SubChecker(Head(checks)),
                                    status     |-> outcome[Head(checks)]]))

\* an overall status that is WARNING as soon as a sub-check warns
OverallStatusWarningFirst(sub_results) ==
    IF \A i \in DOMAIN sub_results : sub_results[i].status = "pass" THEN "pass"
    ELSE IF \E i \in DOMAIN sub_results : sub_results[i].status = "warning" THEN "warning"
    ELSE "fail"

\* if all(... PASS ...) / elif any(... FAIL ...) / else
OverallStatus(sub_results) ==
    IF \A i \in DOMAIN sub_results : sub_results[i].status = "pass" THEN "pass"
    ELSE IF \E i \in DOMAIN sub_results : sub_results[i].status = "fail" THEN "fail"
    ELSE "warning"

CompositeResult(cls, run) ==
    IF run.kind = "raise" THEN run
    ELSE VerificationResult(cls, OverallStatus(run.collected), OverallStatus(run.collected),
                            [kind |-> "details", individual_results |-> run.collected])

\* verify of the four composite verifiers
CompositeVerify(cls, checks, outcome) ==
    CompositeResult(cls, RunChecks(cls, ChecksAsked(cls, checks), outcome, <<>>))

\* The inputs.
SubOutcomes == {"pass", "fail", "warning", "raise"}

\* a name no verifier recognises
UnknownCheck == "unknown"

\* checks is not given, or is a list of at most MaxRequested names
ListArg(v) == [kind |-> "list", v |-> v]

RequestsOf(cls) ==
    {None} \cup {ListArg(v) : v \in UNION {[1..n -> Range(RecognisedChecks(cls)) \cup {UnknownCheck}]
                                               : n \in 0..MaxRequested}}

CompositeInit ==
    /\ \E cls \in CompositeClasses :
          \E checks \in RequestsOf(cls), outcome \in [Range(RecognisedChecks(cls)) -> SubOutcomes] :
             comp_in = [kind |-> "call", cls |-> cls, checks |-> checks, outcome |-> outcome]
    /\ comp_out = None
    /\ IdleBitmap /\ IdleColor /\ IdleAlign /\ IdleConfig /\ IdleCore /\ IdleContrast
    /\ IdleRepeat /\ IdleResponsive /\ IdleBrowser

\* a call of verify(target, checks=...) of a composite verifier
CompositeVerifyCall ==
    /\ comp_in.kind = "call" /\ comp_out = None
    /\ comp_out' = CompositeVerify(comp_in.cls, comp_in.checks, comp_in.outcome)
    /\ UNCHANGED <<comp_in, bitmapVars, colorVars, alignVars, configVars, coreVars,
                   contrastVars, repeatVars, responsiveVars, browserVars>>

CompositeNext == CompositeVerifyCall

SpecComposite == CompositeInit /\ [][CompositeNext]_vars

----------------------------------------------------------------------------
(* Properties of the bitmap comparison (SpecBitmap).                        *)

Black == <<0, 0, 0>>
White == <<255, 255, 255>>

Compared == cmp_out # None /\ cmp_ghost.kind = "compared"

ReferenceArg == cmp_in.reference_path
ActualArg    == IF cmp_in.screenshot # None THEN cmp_in.screenshot ELSE cmp_in.target

SolidColor(img, color) ==
    /\ img.kind = "image" /\ img.mode = "RGB"
    /\ \A i \in DOMAIN img.px : img.px[i] = color

EqualSizeRGB ==
    /\ ReferenceArg.mode = "RGB" /\ ActualArg.mode = "RGB"
    /\ ReferenceArg.size = ActualArg.size

BlackAgainstWhite ==
    /\ Compared
    /\ ReferenceArg.size = ActualArg.size
    /\ \/ SolidColor(ReferenceArg, Black) /\ SolidColor(ActualArg, White)
       \/ SolidColor(ReferenceArg, White) /\ SolidColor(ActualArg, Black)

\* C1: comparing a solid-black with a solid-white bitmap of equal size, in
\* either order, gives similarity exactly 0 and difference_percentage exactly 100.
C1_BlackWhiteSimilarityZero ==
    BlackAgainstWhite =>
        /\ RatEq(cmp_out.details.similarity, Rat(0, 1))
        /\ RatEq(cmp_out.details.differences.difference_percentage, Rat(100, 1))

\* the sum over all channel samples of (a - b)^2, without wrap-around
ExactSquaredError(img1, img2) ==
    LET a == ToArray(img1)
        b == ToArray(img2)
    IN  SumTo([k \in DOMAIN a |-> (a[k] - b[k]) * (a[k] - b[k])], Len(a))

\* C2: for equal-size RGB bitmaps the similarity is 1 - MSE / 255^2 with MSE the
\* exact mean of (a - b)^2 over all pixels and channels, and it lies in [0, 1].
C2_SimilarityIsOneMinusExactMSE ==
    (Compared /\ EqualSizeRGB) =>
        LET n   == NPixels(ReferenceArg.size) * NumChannels
            sse == ExactSquaredError(ReferenceArg, ActualArg)
            sim == cmp_out.details.similarity
        IN  /\ RatEq(sim, Rat(255 * 255 * n - sse, 255 * 255 * n))
            /\ RatGeq(sim, Rat(0, 1)) /\ RatLeq(sim, Rat(1, 1))

\* C3: when the dimensions differ the actual bitmap, never the reference, is
\* resized to the reference's dimensions, and the verdict's metrics record
\* whether a resize occurred.
C3_ResizeOfActualIsRecorded ==
    Compared =>
        LET differ == cmp_ghost.in_size1 # cmp_ghost.in_size2
            metrics == cmp_out.details.differences
        IN  /\ cmp_ghost.size1 = cmp_ghost.in_size1
            /\ cmp_ghost.size2 = cmp_ghost.in_size1
            /\ ~cmp_ghost.resized1
            /\ cmp_ghost.resized2 = differ
            /\ "resized" \in DOMAIN metrics
            /\ metrics["resized"] = differ

\* the number of pixels with a channel whose absolute difference exceeds tolerance
PixelsOverTolerance(img1, img2, tolerance) ==
    Cardinality({i \in DOMAIN img1.px :
                    \E ch \in 1..NumChannels : Abs(img1.px[i][ch] - img2.px[i][ch]) > tolerance})

\* C4: total_pixels is width x height of the compared bitmap, different_pixels
\* counts pixels (not channel samples) over the tolerance, and the three counts
\* are in the verdict of passing and of failing comparisons.
C4_CountsArePixels ==
    Compared =>
        LET metrics == cmp_out.details.differences IN
        /\ {"different_pixels", "total_pixels", "difference_percentage"} \subseteq DOMAIN metrics
        /\ metrics.total_pixels = NPixels(cmp_ghost.size1)
        /\ EqualSizeRGB =>
              metrics.different_pixels
                 = PixelsOverTolerance(ReferenceArg, ActualArg, cmp_in.tolerance)

----------------------------------------------------------------------------
(* Properties of the colour parser (SpecColor).                             *)

Returned == parse_out.kind = "returned"

\* C5: a successful parse is a triple of integers in [0, 255]; rgb(999, 0, 0)
\* is a parse failure.
C5_ChannelsInByteRange ==
    Returned =>
        /\ parse_out.value.kind = "rgb" =>
              \A i \in 1..3 : parse_out.value.rgb[i] \in 0..255
        /\ (\E sep \in Separators :
               color_str = RgbString(<<"9", "9", "9">>, <<"0">>, <<"0">>, sep))
              => parse_out.value = None

ZeroAlphas == {<<"0">>, <<"0", ".", "0">>}

\* C6: rgba(r, g, b, a) with alpha 0 is a parse failure; with a non-zero alpha
\* it is (r, g, b).
C6_ZeroAlphaIsTransparent ==
    Returned =>
        \A r \in RedStrings, g \in OtherStrings, b \in OtherStrings,
           a \in AlphaStrings, sep \in Separators :
            color_str = RgbaString(r, g, b, a, sep) =>
                IF a \in ZeroAlphas
                THEN parse_out.value = None
                ELSE parse_out.value
                        = ParsedColor(ParseInt(r, 10), ParseInt(g, 10), ParseInt(b, 10))

\* the whole string, not only a prefix of it, is in one of the three notations
ExactNotation(str) ==
    \E pat \in {RgbPattern, RgbaPattern, HexPattern} :
        ReMatch(pat, str).ok /\ ReMatch(pat, str).end = Len(str) + 1

\* C7: every string that is not exactly rgb(r, g, b), rgba(r, g, b, a) or
\* #RRGGBB, the empty string included, is a parse failure.
C7_OnlyExactNotationsParse ==
    (Returned /\ ~ExactNotation(color_str)) => parse_out.value = None

----------------------------------------------------------------------------
(* Properties of the grid alignment check (SpecAlign).                      *)

\* six found boxes in three columns, one of the two rows moved by (dx, dy),
\* checked as a grid of three columns with tolerance 5
ShiftedGridChecked(dx, dy) ==
    /\ align_in.kind = "call" /\ align_out # None
    /\ align_in.type = "grid" /\ align_in.columns = IntArg(3) /\ align_in.tolerance = 5
    /\ \A i \in DOMAIN align_in.elements : align_in.elements[i].found
    /\ \E sr \in {0, 1} :
          [i \in DOMAIN align_in.elements |-> align_in.elements[i].bounds]
             = Layout(6, 3, sr, dx, dy, 0, 0)

ChecksOf(axis) == {c \in Range(align_out.checks) : c.tag.axis = axis}

FailingRows == {c.tag.index : c \in {d \in ChecksOf("row") : ~d.passed}}

\* C8 as stated: a row shifted by 20px gives exactly one failing row, and the
\* other row's and the columns' checks pass.
C8_ExactlyOneFailingRow ==
    (ShiftedGridChecked(20, 0) \/ ShiftedGridChecked(0, 20)) =>
        /\ Cardinality(FailingRows) = 1
        /\ \A c \in ChecksOf("column") : c.passed

\* C8 amended: a row check compares the boxes of one row with each other, so
\* moving a whole row fails no row check: both rows' two checks pass; moved
\* down by 20px every column check passes too and the result passes, moved
\* sideways by 20px every check of the three columns fails and the result fails.
C8_ShiftedRowFailsNoRowCheck ==
    /\ (ShiftedGridChecked(20, 0) \/ ShiftedGridChecked(0, 20)) =>
          /\ align_out.kind = "dict"
          /\ FailingRows = {}
          /\ {c.tag.index : c \in ChecksOf("row")} = {0, 1}
          /\ Len(align_out.checks) = 10
    /\ ShiftedGridChecked(0, 20) =>
          /\ \A c \in ChecksOf("column") : c.passed
          /\ align_out.passed
    /\ ShiftedGridChecked(20, 0) =>
          /\ \A c \in ChecksOf("column") : ~c.passed
          /\ {c.tag.index : c \in ChecksOf("column")} = {0, 1, 2}
          /\ ~align_out.passed

C8_Witness == ShiftedGridChecked(20, 0) /\ ~align_out.passed

----------------------------------------------------------------------------
(* Properties of the result objects (SpecCore).                             *)

\* C9 as stated: once verify has returned a result, no step changes a field of it.
C9_ResultNeverModified ==
    [][\A r \in DOMAIN heap : heap'[r] = heap[r]]_vars

\* C9 amended: the only write to an existing result is run_verification setting
\* duration_ms, once, on the result its own verify call has just returned and
\* before that result is in any list; every other field, and every result that
\* run_verification has returned, stays as it is under all operations.
C9_OnlyDurationIsStampedOnce ==
    [][\A r \in DOMAIN heap :
          \/ heap'[r] = heap[r]
          \/ /\ \E t \in DOMAIN frames :
                   /\ frames[t].pc = "rv_stamp" /\ frames[t].result = r
                   /\ frames'[t].pc = "rv_append"
             /\ heap[r].duration_ms = None
             /\ heap'[r] = [heap[r] EXCEPT !.duration_ms = Measured]
             /\ \A v \in Verifiers : r \notin Range(results[v])
             /\ r \notin Range(suite.results)]_vars

C9_Witness ==
    /\ observed # None /\ observed.kind = "report"
    /\ \E r \in DOMAIN heap : heap[r].message = "verified" /\ heap[r].duration_ms = Measured
    /\ suite.results # <<>>

----------------------------------------------------------------------------
(* Properties of the analyzers' thresholds (SpecConfig).                    *)

\* the VerificationConfig field that holds an analyzer's threshold
FieldOf(cls, attr) ==
    CASE cls = "ScreenshotComparator" /\ attr = "threshold" -> "screenshot_threshold"
      [] cls = "ScreenshotComparator" /\ attr = "tolerance" -> "screenshot_tolerance"
      [] cls = "AlignmentChecker"     /\ attr = "tolerance" -> "alignment_tolerance"
      [] OTHER -> attr

\* 0.95 similarity, 5 pixel tolerance, 5px alignment, 4.5 contrast, 3.0 large text
DocumentedConstant(field) == VerificationConfigDefaults[field]

\* what the caller's configuration says about a field
CallerValue(config, field) ==
    CASE config.kind = "VerificationConfig" -> config.attrs[field]
      [] config.kind = "dict" /\ field \in DOMAIN config.d -> config.d[field]
      [] OTHER -> DocumentedConstant(field)

\* the configuration uses the names of VerificationConfig only
UsesConfigFields(config) == config.kind = "dict" => DOMAIN config.d \subseteq ConfigFields

\* C10: the threshold an analyzer applies is the value the caller's
\* configuration sets (a VerificationConfig field or to_dict() key), and the
\* documented constant when it sets none.
C10_AppliedThresholdIsCallersValue ==
    (cfg_out # None /\ UsesConfigFields(cfg_in)) =>
        /\ cfg_out.kind = "analyzer"
        /\ \A attr \in DOMAIN cfg_out.fields :
              cfg_out.fields[attr] = CallerValue(cfg_in, FieldOf(cfg_out.cls, attr))

----------------------------------------------------------------------------
(* Properties of the contrast arithmetic and the contrast check             *)
(* (SpecContrast).                                                          *)

RatioReturned == con_in.kind = "ratio" /\ con_out # None

\* C11: the contrast ratio of black and white is exactly 21.0 in both argument
\* orders, and the contrast ratio of a colour with itself is exactly 1.0.
C11_BlackWhiteIs21AndSelfIs1 ==
    RatioReturned =>
        /\ {con_in.color1, con_in.color2} = {Black, White} => con_out.v = FloatOfInt(21)
        /\ con_in.color1 = con_in.color2 => con_out.v = FloatOne

C11_Witness ==
    /\ RatioReturned /\ con_in.color1 = White /\ con_in.color2 = Black
    /\ con_out.v = FloatOfInt(21)

\* C12: the contrast ratio of a and b equals that of b and a, and it is at least 1.
C12_SymmetricAndAtLeastOne ==
    RatioReturned =>
        /\ con_out.v = (IF con_out.by = "ColorUtils"
                        THEN calculate_contrast_ratio(con_in.color2, con_in.color1, con_in.pow)
                        ELSE _calculate_contrast_ratio(con_in.color2, con_in.color1, con_in.pow))
        /\ FloatGeq(con_out.v, FloatOne)

C12_Witness ==
    /\ RatioReturned /\ con_in.color1 = Black /\ con_in.color2 = <<128, 128, 128>>
    /\ FloatGeq(con_out.v, FloatOfInt(2))

VerifyReturned == con_in.kind = "verify" /\ con_out # None

CheckedElements == IF con_in.elements = <<>> THEN con_in.text_elements ELSE con_in.elements

\* C13: a contrast check passes iff ratio >= required, where required is the
\* large-text threshold of the checker (3.0 in is_color_accessible) for large
\* text and its normal threshold (4.5) otherwise.
C13_PassIffRatioMeetsRequired ==
    /\ VerifyReturned =>
          \A i \in DOMAIN con_out.details.contrast_results :
              LET res   == con_out.details.contrast_results[i]
                  entry == res.checks[1]
                  st    == CheckedElements[i].styles
              IN  /\ (/\ CheckedElements[i].found
                      /\ _parse_color(st.color) # None /\ _parse_color(st.backgroundColor) # None)
                        => entry.metrics # None
                  /\ entry.metrics # None =>
                        /\ entry.metrics.required_ratio
                              = (IF entry.metrics.is_large_text
                                 THEN con_in.self.large_text_ratio
                                 ELSE con_in.self.min_contrast_ratio)
                        /\ entry.passed
                              <=> FloatGeq(entry.metrics.contrast_ratio, entry.metrics.required_ratio)
                        /\ res.passed = entry.passed
    /\ (con_in.kind = "accessible" /\ con_out # None) =>
          (con_out.ok <=> FloatGeq(con_out.ratio,
                                   IF con_in.is_large_text THEN Float3_0 ELSE Float4_5))

C13_Witness ==
    /\ VerifyReturned
    /\ \E i \in DOMAIN con_out.details.contrast_results :
          LET entry == con_out.details.contrast_results[i].checks[1] IN
          /\ entry.metrics # None /\ entry.metrics.is_large_text /\ entry.passed
          /\ ~FloatGeq(entry.metrics.contrast_ratio, con_in.self.min_contrast_ratio)

\* C14: when the text colour or the background colour of a found element
\* cannot be parsed, the element's check fails with the single entry "could
\* not determine colour", which carries no contrast ratio, and the verdict of
\* ContrastChecker.verify is FAIL.
C14_UnparsedColorFailsWithoutRatio ==
    VerifyReturned =>
        /\ Len(con_out.details.contrast_results) = Len(CheckedElements)
        /\ \A i \in DOMAIN CheckedElements :
              LET st  == CheckedElements[i].styles
                  res == con_out.details.contrast_results[i]
              IN  (/\ CheckedElements[i].found
                   /\ \/ _parse_color(st.color) = None
                      \/ _parse_color(st.backgroundColor) = None)
                  => /\ ~res.passed
                     /\ Len(res.checks) = 1
                     /\ res.checks[1].type = "contrast_ratio"
                     /\ ~res.checks[1].passed
                     /\ res.checks[1].message = "could_not_determine_color"
                     /\ res.checks[1].metrics = None
                     /\ con_out.status = "fail"

C14_Witness ==
    /\ VerifyReturned /\ Len(con_out.details.contrast_results) = 2
    /\ con_out.details.contrast_results[1].passed
    /\ CheckedElements[2].styles.color = CssOf(<<0, 0, 0>>)
    /\ CheckedElements[2].styles.backgroundColor = Transparent
    /\ con_out.details.contrast_results[2].checks[1].message = "could_not_determine_color"
    /\ con_out.status = "fail"

----------------------------------------------------------------------------
(* Properties of the alignment modes (SpecAlign).                           *)

AlignmentReturned == align_in.kind = "call" /\ align_out # None

AllFound == \A i \in DOMAIN align_in.elements : align_in.elements[i].found

BoundsGiven == [i \in DOMAIN align_in.elements |-> align_in.elements[i].bounds]

\* max - min <= tolerance
SpreadWithin(values, tolerance) == SetMax(values) - SetMin(values) <= tolerance

\* C15: horizontal mode gives exactly top_alignment over the y values and
\* center_alignment over the vertical centres y + height / 2, vertical mode
\* exactly left_alignment over the x values and center_alignment over the
\* horizontal centres x + width / 2; each passes iff max - min <= tolerance,
\* and the result passes iff both pass.  (Centres are compared doubled.)
C15_TwoIndependentSubChecks ==
    (/\ AlignmentReturned /\ AllFound /\ Len(align_in.elements) >= 2
     /\ align_in.type \in {"horizontal", "vertical"}) =>
        LET b        == BoundsGiven
            hor      == align_in.type = "horizontal"
            edges    == {IF hor THEN b[i].y ELSE b[i].x : i \in DOMAIN b}
            centers2 == {IF hor THEN 2 * b[i].y + b[i].height
                                ELSE 2 * b[i].x + b[i].width : i \in DOMAIN b}
            checks   == align_out.checks
        IN  /\ align_out.kind = "dict"
            /\ Len(checks) = 2
            /\ checks[1].type = (IF hor THEN "top_alignment" ELSE "left_alignment")
            /\ checks[2].type = "center_alignment"
            /\ checks[1].passed <=> SpreadWithin(edges, align_in.tolerance)
            /\ checks[2].passed <=> SpreadWithin(centers2, 2 * align_in.tolerance)
            /\ align_out.passed <=> (checks[1].passed /\ checks[2].passed)

\* the boxes among b[1..n] whose index is in S, in order
SubsequenceAt(b, S) ==
    LET pick[k \in 0..Len(b)] ==
            IF k = 0 THEN <<>>
            ELSE IF k \in S THEN Append(pick[k - 1], b[k]) ELSE pick[k - 1]
    IN  pick[Len(b)]

GridColumnsAsked == IF align_in.columns = None THEN DefaultColumns ELSE align_in.columns.v

\* the boxes of row i (of column j): list index k (from 0) is in row
\* k div grid_columns and in column k mod grid_columns
BoxesOfRow(i) ==
    SubsequenceAt(BoundsGiven, {k \in DOMAIN BoundsGiven : (k - 1) \div GridColumnsAsked = i})
BoxesOfColumn(j) ==
    SubsequenceAt(BoundsGiven, {k \in DOMAIN BoundsGiven : (k - 1) % GridColumnsAsked = j})

RECURSIVE ExpectedRowChecks(_)
ExpectedRowChecks(i) ==
    IF BoxesOfRow(i) = <<>> THEN <<>>
    ELSE (IF Len(BoxesOfRow(i)) >= 2
          THEN Tagged(HorizontalAlignmentChecks(BoxesOfRow(i), align_in.tolerance), "row", i)
          ELSE <<>>)
         \o ExpectedRowChecks(i + 1)

RECURSIVE ExpectedColumnChecks(_)
ExpectedColumnChecks(j) ==
    IF j >= GridColumnsAsked THEN <<>>
    ELSE (IF Len(BoxesOfColumn(j)) >= 2
          THEN Tagged(VerticalAlignmentChecks(BoxesOfColumn(j), align_in.tolerance), "column", j)
          ELSE <<>>)
         \o ExpectedColumnChecks(j + 1)

GridChecked ==
    /\ AlignmentReturned /\ AllFound /\ Len(align_in.elements) >= 2
    /\ align_in.type = "grid"

\* C16: in grid mode box k is in row k div grid_columns and column
\* k mod grid_columns; every row of two boxes or more has its horizontal
\* checks reported with the row's tag, every column of two boxes or more its
\* vertical checks with the column's tag, whatever failed before; and the
\* result passes iff every reported check passed.
C16_GridRowsAndColumnsAllReported ==
    GridChecked =>
        /\ align_out.kind = "dict"
        /\ align_out.checks = ExpectedRowChecks(0) \o ExpectedColumnChecks(0)
        /\ align_out.passed <=> (\A i \in DOMAIN align_out.checks : align_out.checks[i].passed)

C16_Witness ==
    /\ GridChecked /\ Len(align_in.elements) = 5 /\ align_in.columns = IntArg(3)
    /\ Len(align_out.checks) = 8
    /\ \E i, j \in DOMAIN align_out.checks :
          /\ i < j /\ ~align_out.checks[i].passed /\ align_out.checks[j].passed
          /\ align_out.checks[j].tag.axis = "column"

\* C17: an alignment check of fewer than two elements returns a failed result
\* with the single check insufficient_elements; it does not raise and looks up
\* no element (an element that is not on the page makes no difference).
C17_FewerThanTwoIsInsufficient ==
    (AlignmentReturned /\ Len(align_in.elements) < 2) =>
        /\ align_out.kind = "dict"
        /\ ~align_out.passed
        /\ Len(align_out.checks) = 1
        /\ align_out.checks[1].type = "insufficient_elements"
        /\ ~align_out.checks[1].passed

C17_Witness ==
    /\ AlignmentReturned /\ Len(align_in.elements) = 1
    /\ ~align_in.elements[1].found
    /\ align_out.kind = "dict" /\ align_out.checks[1].type = "insufficient_elements"

----------------------------------------------------------------------------
(* Error handling of ScreenshotComparator.verify (SpecBitmap).              *)

VerifyCalled == cmp_in.kind = "call" /\ cmp_out # None

IsBitmap(x) == x.kind = "image"

\* no reference is given or it cannot be opened, no screenshot is given and
\* none can be taken, the screenshot cannot be decoded, or a bitmap is
\* zero-sized
ErrorCase(in) ==
    \/ ~IsBitmap(in.reference_path)
    \/ (IF Falsy(in.screenshot) THEN ~IsBitmap(in.target) ELSE ~IsBitmap(in.screenshot))
    \/ IsEmpty(in.reference_path)
    \/ (IF Falsy(in.screenshot) THEN IsEmpty(in.target) ELSE IsEmpty(in.screenshot))

----------------------------------------------------------------------------
(* Repeated calls (SpecRepeat).                                             *)

\* what a verdict says, its duration left out
Content(result) == [f \in DOMAIN result \ {"duration_ms"} |-> result[f]]

----------------------------------------------------------------------------
(* Two threads on one verifier (SpecThreads).                               *)

\* the results a thread holds and has still to append
HeldResults == {frames[t].result : t \in {u \in DOMAIN frames : frames[u].pc \in {"rv_stamp", "rv_append"}}}

\* how often the result r is in the results list of its verifier
TimesListed(r) ==
    Cardinality({i \in DOMAIN results[heap[r].check_name] :
                    results[heap[r].check_name][i] = r})

\* C20: with the statements of two run_verification calls interleaved, each
\* verdict is the one its own target gives (the one of the call run alone),
\* and every verdict is in the results list of its verifier exactly once as
\* soon as its call has returned: none is lost, none is there twice.
C20_InterleavedRunsKeepBothVerdicts ==
    \A r \in DOMAIN heap :
        /\ heap[r].message = "verified"
              => heap[r].status = (IF heap[r].details = "conforming" THEN "pass" ELSE "fail")
        /\ heap[r].message # "verified" => heap[r].status = "fail"
        /\ IF r \in HeldResults THEN TimesListed(r) = 0 ELSE TimesListed(r) = 1

\* both calls were on v1 and the result that was created first was appended last
C20_Witness ==
    /\ \A t \in DOMAIN frames : frames[t].pc = "idle"
    /\ results["v1"] = <<2, 1>>
    /\ heap[1].status = "pass" /\ heap[2].status = "fail"
    /\ heap[1].details = "conforming" /\ heap[2].message = "verification_failed_with_error"

----------------------------------------------------------------------------
(* Properties of a verify call that runs a list of checks (SpecChecks).     *)

ChecksReturned == rep_log # <<>>

\* the checks the call was given, and the entries of the verdict's details
GivenChecks ==
    IF rep_self.cls = "AlignmentChecker"
    THEN rep_log[1].args.alignment_checks
    ELSE rep_log[1].args.elements

ReportedEntries ==
    IF rep_log[1].result.details = None THEN <<>>
    ELSE IF rep_self.cls = "AlignmentChecker"
    THEN rep_log[1].result.details.alignment_results
    ELSE rep_log[1].result.details.contrast_results

\* find_element raises in check c: an element of a check of two or more is not
\* on the page, or the element whose contrast is asked is not on the page
CheckRaises(c) ==
    IF rep_self.cls = "AlignmentChecker"
    THEN Len(c.elements) >= 2 /\ \E i \in DOMAIN c.elements : ~c.elements[i].found
    ELSE ~c.found

\* entry e is the entry of check c
EntryIsOf(e, c) ==
    IF rep_self.cls = "AlignmentChecker"
    THEN /\ e.elements = Len(c.elements)
         /\ e.kind = "dict" => e.alignment_type = c.type
    ELSE e.element = c.selector

\* entry e records an exception: it failed and carries the error
RecordsError(e) ==
    IF rep_self.cls = "AlignmentChecker"
    THEN e.kind = "error" /\ ~e.passed /\ e.error = "NoSuchElementException"
    ELSE ~e.passed /\ e.checks[1].type = "error"
                   /\ e.checks[1].message = "NoSuchElementException"

----------------------------------------------------------------------------
(* Properties of the overlap check (SpecOverlap).                           *)

OverlapReturned == ovl_in.kind = "pair" /\ ovl_out # None

\* box a ends where box b begins, or before: a is fully to the left of b
FullyLeftOf(a, b) == a.x + a.width <= b.x
\* box a is fully above box b
FullyAbove(a, b)  == a.y + a.height <= b.y

Apart(a, b) ==
    FullyLeftOf(a, b) \/ FullyLeftOf(b, a) \/ FullyAbove(a, b) \/ FullyAbove(b, a)

\* the two boxes meet along an edge and nowhere else
TouchOnly(a, b) ==
    /\ a.width > 0 /\ a.height > 0 /\ b.width > 0 /\ b.height > 0
    /\ \/ a.x + a.width = b.x /\ a.y < b.y + b.height /\ b.y < a.y + a.height
       \/ a.y + a.height = b.y /\ a.x < b.x + b.width /\ b.x < a.x + a.width

\* the cells of 1px by 1px a box covers
Cells(a) == (a.x..(a.x + a.width - 1)) \X (a.y..(a.y + a.height - 1))

\* C22: _elements_overlap(a, b) is true if and only if neither box lies fully
\* to the left of, to the right of, above or below the other; boxes that only
\* touch along an edge do not overlap, boxes that cover a common cell do; and
\* the answer is the same with the two arguments exchanged.
C22_OverlapIffNotApartAndSymmetric ==
    OverlapReturned =>
        /\ ovl_out.forward <=> ~Apart(ovl_in.bounds1, ovl_in.bounds2)
        /\ TouchOnly(ovl_in.bounds1, ovl_in.bounds2) => ~ovl_out.forward
        /\ Cells(ovl_in.bounds1) \cap Cells(ovl_in.bounds2) # {} => ovl_out.forward
        /\ ovl_out.forward = ovl_out.backward

\* two boxes that touch along an edge, asked both ways
C22_Witness ==
    /\ OverlapReturned
    /\ TouchOnly(ovl_in.bounds1, ovl_in.bounds2)
    /\ ovl_in.bounds1.x + ovl_in.bounds1.width = ovl_in.bounds2.x
    /\ ~ovl_out.forward /\ ~ovl_out.backward

----------------------------------------------------------------------------
(* Properties of the bitmap verdict (SpecBitmap).                           *)

\* the reference was opened and the screenshot (given, or taken from the
\* driver) was decoded
BothLoaded ==
    /\ IsBitmap(ReferenceArg)
    /\ IsBitmap(ActualArg)

\* the similarity the verdict reports, if it reports one
SimilarityReported == cmp_out.details # None

SimilarityMeetsThreshold ==
    /\ SimilarityReported
    /\ ~IsNaN(cmp_out.details.similarity)
    /\ cmp_out.details.similarity.num * cmp_in.threshold.den
          >= cmp_in.threshold.num * cmp_out.details.similarity.den

\* C23: the verdict of ScreenshotComparator.verify is PASS if and only if
\* both images were loaded and the similarity computed is at least the
\* threshold the comparator holds (equal to it included); in every other
\* case the verdict is FAIL.
C23_PassIffLoadedAndSimilarityMeetsThreshold ==
    VerifyCalled =>
        /\ cmp_out.status \in {"pass", "fail"}
        /\ cmp_out.status = "pass" <=> (BothLoaded /\ SimilarityMeetsThreshold)
        /\ SimilarityReported => cmp_out.details.threshold = cmp_in.threshold

\* a comparison whose similarity is exactly the threshold, which passes
C23_Witness ==
    /\ VerifyCalled /\ BothLoaded /\ SimilarityReported
    /\ RatEq(cmp_out.details.similarity, cmp_in.threshold)
    /\ cmp_in.threshold = Rat(1, 1)
    /\ cmp_out.status = "pass"

\* the reference and the screenshot are the same bitmap, of one pixel or more
IdenticalBitmaps ==
    /\ BothLoaded
    /\ ReferenceArg = ActualArg
    /\ ~IsEmpty(ReferenceArg)

\* C24: comparing a bitmap of one pixel or more with an identical bitmap gives
\* a similarity of exactly 1.0 and different_pixels = 0 (an mse of 0 and a
\* difference_percentage of 0), whatever the bitmap, its mode and the pixel
\* tolerance (0 included).
C24_IdenticalBitmapsAreFullySimilar ==
    (VerifyCalled /\ IdenticalBitmaps) =>
        /\ SimilarityReported
        /\ cmp_out.details.similarity.num = cmp_out.details.similarity.den
        /\ cmp_out.details.similarity.den > 0
        /\ cmp_out.details.differences.different_pixels = 0
        /\ cmp_out.details.differences.mse.num = 0
        /\ cmp_out.details.differences.difference_percentage.num = 0

\* a bitmap of more than one pixel, not of one colour, compared with itself
\* at tolerance 0
C24_Witness ==
    /\ VerifyCalled /\ IdenticalBitmaps
    /\ NPixels(ReferenceArg.size) > 1 /\ ~IsSolid(ReferenceArg)
    /\ cmp_in.tolerance = 0
    /\ RatEq(cmp_out.details.similarity, Rat(1, 1))
    /\ cmp_out.details.differences.different_pixels = 0

----------------------------------------------------------------------------
(* Properties of colour parsing, continued (SpecColor).                     *)

\* the numbers the decimal strings and the hexadecimal pairs of the inputs
\* denote
DecimalOf(digits) ==
    CASE digits = <<"0">> -> 0
      [] digits = <<"7">> -> 7
      [] digits = <<"2", "5", "5">> -> 255
      [] digits = <<"9", "9", "9">> -> 999

ByteOf(pair) ==
    CASE pair = <<"0", "0">> -> 0
      [] pair = <<"8", "0">> -> 128
      [] pair = <<"a", "B">> -> 171
      [] pair \in {<<"f", "f">>, <<"F", "F">>} -> 255

\* C25: 'rgb(r, g, b)', with or without a blank after the commas, parses to
\* (r, g, b); '#RRGGBB', in either letter case, parses to the three bytes it
\* encodes, so that 'rgb(255, 0, 0)' and '#ff0000' both give (255, 0, 0);
\* 'transparent' is a parse failure, not (0, 0, 0).  This holds of
\* _parse_color and of parse_css_color.
C25_NotationsParseToTheirBytes ==
    Returned =>
        /\ \A r \in RedStrings, g \in OtherStrings, b \in OtherStrings, sep \in Separators :
              color_str = RgbString(r, g, b, sep) =>
                 parse_out.value = ParsedColor(DecimalOf(r), DecimalOf(g), DecimalOf(b))
        /\ \A r \in HexPairs, g \in HexPairs, b \in HexPairs :
              color_str = HexString(r, g, b) =>
                 parse_out.value = ParsedColor(ByteOf(r), ByteOf(g), ByteOf(b))
        /\ color_str \in {RgbString(<<"2", "5", "5">>, <<"0">>, <<"0">>, <<",", " ">>),
                          <<"#", "f", "f", "0", "0", "0", "0">>,
                          <<"#", "F", "F", "0", "0", "0", "0">>}
              => parse_out.value = ParsedColor(255, 0, 0)
        /\ color_str = Transparent =>
              parse_out.value = None /\ parse_out.value # ParsedColor(0, 0, 0)

\* '#FF0000' parsed by parse_css_color
C25_Witness ==
    /\ Returned
    /\ parse_out.by = "parse_css_color"
    /\ color_str = <<"#", "F", "F", "0", "0", "0", "0">>
    /\ parse_out.value = ParsedColor(255, 0, 0)

----------------------------------------------------------------------------
(* Properties of run_verification and of the suite (SpecCore).              *)

\* thread t returns from a call of run_verification made by a caller (not by
\* run_all) in this step
ReturnsFromRunVerification(t) ==
    /\ frames[t].pc = "rv_append" /\ ~frames[t].in_run_all
    /\ frames'[t].pc = "idle"

\* the result is the one verify returned for the target, or, verify having
\* raised, a FAIL that carries the error
OutcomeOfVerify(r, target) ==
    IF VerifyRaises(target)
    THEN /\ heap[r].status = "fail"
         /\ heap[r].message = "verification_failed_with_error"
    ELSE /\ heap[r].message = "verified"
         /\ heap[r].details = target

\* C26: a call of run_verification always returns a result, also when verify
\* raised, in which case the result is a FAIL carrying the error; the call
\* appends the result it returns to the verifier's results list, once, and
\* nothing else of run_verification changes a results list.
C26_ReturnsAndAppendsOneResult ==
    [][/\ \A t \in DOMAIN frames :
             ReturnsFromRunVerification(t) =>
                /\ observed' = [kind |-> "run_verification", result |-> frames[t].result]
                /\ OutcomeOfVerify(frames[t].result, frames[t].target)
                /\ results' = [results EXCEPT ![frames[t].verifier] =
                                                 Append(@, frames[t].result)]
                /\ heap' = heap
       /\ \A v \in Verifiers :
             results'[v] # results[v] =>
                \/ results'[v] = <<>>
                \/ \E t \in DOMAIN frames :
                      /\ frames[t].pc = "rv_append" /\ frames[t].verifier = v
                      /\ frames'[t].pc # "rv_append"
                      /\ results'[v] = Append(results[v], frames[t].result)
       /\ \A t \in DOMAIN frames :
             (frames[t].pc # "rv_append" /\ frames'[t].pc = "rv_append") =>
                /\ frames[t].pc \in {"rv_stamp", "rv_except"}
                /\ frames[t].pc = "rv_except" <=> VerifyRaises(frames[t].target)
      ]_vars

\* a call on a driver that cannot be reached has returned: its FAIL result is
\* the last of the verifier's list, after the result of a call before it
C26_Witness ==
    /\ observed # None /\ observed.kind = "run_verification"
    /\ heap[observed.result].status = "fail"
    /\ heap[observed.result].message = "verification_failed_with_error"
    /\ \E v \in Verifiers :
          /\ Len(results[v]) = 2
          /\ results[v][2] = observed.result
          /\ heap[results[v][1]].status = "pass"

\* thread t enters run_all, returns from run_all, in this step
EntersRunAll(t)   == frames[t].pc = "idle" /\ frames'[t].in_run_all
ReturnsFromRunAll(t) == frames[t].in_run_all /\ frames'[t].pc = "idle"

\* the sum of the counts of a summary
SumOfCounts(counts) ==
    counts["pass"] + counts["fail"] + counts["warning"] + counts["skip"]

\* C27: run_all returns one result per verifier of the suite, in the order the
\* verifiers were added, all of them made by this run; the suite's stored
\* results are those results and nothing of the runs before, and they stay so
\* until the next run_all; get_suite_summary then gives a total_checks equal
\* to the number of verifiers and status_counts that sum to total_checks.
C27_RunAllKeepsOnlyTheLastRun ==
    [][/\ \A t \in DOMAIN frames :
             ReturnsFromRunAll(t) =>
                /\ observed' = [kind |-> "run_all", results |-> suite.results]
                /\ suite' = suite
                /\ Len(suite.results) = Len(suite.verifiers)
                /\ \A i \in DOMAIN suite.results :
                      /\ heap[suite.results[i]].check_name = suite.verifiers[i]
                      /\ suite.results[i] > frames[t].base
                      /\ \A j \in DOMAIN suite.results :
                            i # j => suite.results[i] # suite.results[j]
                /\ get_suite_summary.total_checks = Len(suite.verifiers)
                /\ SumOfCounts(get_suite_summary.status_counts)
                      = get_suite_summary.total_checks
       /\ suite'.results # suite.results =>
             \E t \in DOMAIN frames :
                \/ EntersRunAll(t) /\ suite'.results = <<>>
                \/ /\ frames[t].in_run_all /\ frames[t].pc = "ra_append"
                   /\ suite'.results = Append(suite.results, frames[t].result)
      ]_vars

\* the suite of one verifier has been run twice: the second run has returned
\* and the stored results are the result of that run alone
C27_Witness ==
    /\ observed # None /\ observed.kind = "run_all"
    /\ Len(suite.verifiers) = 1
    /\ Len(heap) = 2
    /\ results[suite.verifiers[1]] = <<1, 2>>
    /\ suite.results = <<2>> /\ observed.results = <<2>>

----------------------------------------------------------------------------
(* Properties of the suite summary (SpecSuite).                             *)

\* get_suite_summary has been called while no run_all was going on
SuiteSummaryTaken ==
    /\ observed # None /\ observed.kind = "suite_summary"
    /\ \A t \in DOMAIN frames : frames[t].pc = "idle"

\* the status counts of all entries of 'verifiers', added up
SumOfVerifierCounts(summary) ==
    SumTo([i \in DOMAIN summary.verifiers |-> SumOfCounts(summary.verifiers[i].results)],
          Len(summary.verifiers))

\* C28: after any sequence of add_verifier and run_all calls, the status
\* counts over all entries of 'verifiers' in the suite summary sum to its
\* total_checks.
C28_VerifierCountsSumToTotalChecks ==
    SuiteSummaryTaken =>
        SumOfVerifierCounts(observed.summary) = observed.summary.total_checks

----------------------------------------------------------------------------
(* Properties of the BrowserManager (SpecBrowser).                          *)

\* the drivers created and not yet quit
OpenDrivers == {d \in DOMAIN bm_created : bm_created[d] = "open"}

Returned_get_driver ==
    bm_out # None /\ bm_out.call \in {"get_driver", "enter"} /\ bm_out.value.kind = "driver"

Closed == bm_out # None /\ bm_out.call \in {"close_driver", "exit"}

\* C29: at any time at most one driver the manager created is not yet quit;
\* get_driver (and __enter__) returns the driver held when one is held and
\* creates one only when none is held; after close_driver or __exit__ the
\* manager holds no driver and every driver it created has been quit.
C29_AtMostOneDriverOpen ==
    /\ Cardinality(OpenDrivers) <= 1
    /\ Returned_get_driver =>
          IF bm_out.held = None
          THEN bm_out.value.id = Len(bm_created)
          ELSE bm_out.value = bm_out.held
    /\ Closed => (bm_driver = None /\ OpenDrivers = {})

----------------------------------------------------------------------------
(* Properties of the composite verifiers (SpecComposite).                   *)

CompositeReturned == comp_in.kind = "call" /\ comp_out # None /\ comp_out.kind = "result"

\* the checks asked that the verifier recognises, in the order asked
RecognisedAsked ==
    SelectSeq(ChecksAsked(comp_in.cls, comp_in.checks),
              LAMBDA c : c \in Range(RecognisedChecks(comp_in.cls)))

\* the sub-checks that were executed: the entries of the details
Executed == comp_out.details.individual_results

\* C30: a composite verifier that returns a verdict returns FAIL if and only
\* if at least one executed sub-check is FAIL, PASS if and only if every
\* executed sub-check is PASS (so also when no check asked is recognised and
\* nothing ran), and WARNING otherwise; its details hold exactly one entry
\* per recognised check asked, in the order asked, each with the status its
\* sub-checker returned.
C30_OverallStatusAndOneEntryPerCheck ==
    CompositeReturned =>
        /\ comp_out.status = "fail" <=> \E i \in DOMAIN Executed : Executed[i].status = "fail"
        /\ comp_out.status = "pass" <=> \A i \in DOMAIN Executed : Executed[i].status = "pass"
        /\ comp_out.status \in {"pass", "fail", "warning"}
        /\ Len(Executed) = Len(RecognisedAsked)
        /\ \A i \in DOMAIN Executed :
              /\ Executed[i].check_name = SubChecker(RecognisedAsked[i])
              /\ Executed[i].status = comp_in.outcome[RecognisedAsked[i]]

\* three checks asked, one of them not recognised: the two that ran gave a
\* warning and a failure, in that order, and the verdict is FAIL
C30_Witness ==
    /\ CompositeReturned
    /\ ~Falsy(comp_in.checks) /\ Len(comp_in.checks.v) = 3
    /\ UnknownCheck \in Range(comp_in.checks.v)
    /\ Len(Executed) = 2
    /\ Executed[1].status = "warning" /\ Executed[2].status = "fail"
    /\ comp_out.status = "fail"

============================================================================
